---------------------------- MODULE Spec2Model ----------------------------
(***************************************************************************)
(* A model of the raw-ingestion and normalisation core of ipeds_etl:       *)
(*   etl/http.py      get_with_retries, fetch_endpoint_data                *)
(*   etl/raw_io.py    ensure_raw_table, insert_raw_payloads                *)
(*   etl/core_io.py   _iter_raw_records, load_core_from_raw                *)
(*   etl/mappers/directory.py   _is_missing, _pick, _to_int, _to_float,    *)
(*                              _to_str, map_directory_row                 *)
(*   etl/registry.py  REGISTRY, get_endpoint_config                        *)
(*                                                                         *)
(* JSON values are tagged records: [t |-> "null"], [t |-> "int", v |-> n], *)
(* [t |-> "str", v |-> <<chars>>] (a string is a sequence of one-character *)
(* strings, so that strip(), int() and float() can be computed),           *)
(* [t |-> "bool"], [t |-> "float"], [t |-> "list", v |-> <<items>>],       *)
(* [t |-> "obj", f |-> function from keys to JSON values].                 *)
(***************************************************************************)
EXTENDS Integers, Sequences, FiniteSets, TLC

VARIABLES
    max_retries,    \* settings.MAX_RETRIES, bound as the default of get_with_retries
    upstream,       \* the API's pages for the year being fetched (the server side)
    fpc,            \* fetch_endpoint_data: "idle" | "get" | "done" | "raised"
    url,            \* the page URL the loop is at
    attempt,        \* get_with_retries: the loop index of the next attempt (0-based)
    resp,           \* the response get_with_retries returned, NoResp before
    all_results,    \* fetch_endpoint_data: the running output
    requests,       \* every session.get issued by this call: <<[page, ok]>>
    ferr,           \* why the fetch raised: "none" | "exhausted" | "malformed"
    ipc,            \* insert_raw_payloads: "idle" | "fetching" | "done" | "raised"
    call,           \* the arguments of the insert_raw_payloads call in progress
    ret,            \* its return value (-1: none)
    prev,           \* the last completed insert_raw_payloads call: its arguments and records
    rawBefore,      \* the archive rows when the call in progress began
    schemaExists,   \* whether the namespace ipeds_raw exists
    rawTableExists, \* whether ipeds_raw."<endpoint>_raw" exists
    raw,            \* the rows of ipeds_raw."<endpoint>_raw"
    rows_to_write,  \* insert_raw_payloads: the rows built by the call
    clock,          \* the time of day, in ticks
    lpc,            \* load_core_from_raw: "idle" | "iter" | "done" | "raised"
    largs,          \* its arguments: years, batch_size
    stream,         \* the records _iter_raw_records is to yield, with their rows
    lpos,           \* the position in the stream
    rows_buffer,    \* load_core_from_raw: the batch being filled
    processed,      \* load_core_from_raw: the count of rows flushed
    lret,           \* its return value (-1: none)
    core,           \* the rows of ipeds_core.<endpoint>
    coreTableExists,\* whether ipeds_core.<endpoint> exists
    yielded,        \* every record mapped by this call: its row's year, the payload
                    \* object, the object as yielded, and its mapping
    stmts,          \* the batches this call has executed
    coreBefore,     \* the core rows when the call in progress began
    dbFaulty,       \* whether the database may fail an upsert statement
    cdata,          \* two concurrent processes: the arguments and records they share
    cpc,            \* each process's place: "start" | "txn" | "done" | "raised"
    crows,          \* each process's rows_to_write
    cidx,           \* each process's next row to upsert
    pend,           \* each process's uncommitted row versions
    locked,         \* the row keys each process's transaction holds
    cret,           \* each process's return value (-1: none)
    hin,            \* a mapper helper on its own: the input it is given
    hfn,            \* the helper applied to it, "none" before
    hout,           \* what the helper returned or raised
    tables,         \* the registry boundary: the tables that exist, by endpoint name
    written,        \* the tables that hold rows
    rcall,          \* the last call made with an endpoint name
    rres            \* how it ended: "none" | "returned" | the exception raised

fetchVars == <<upstream, fpc, url, attempt, resp, all_results, requests, ferr>>
rawVars   == <<ipc, call, ret, prev, rawBefore, schemaExists, rawTableExists, raw,
              rows_to_write, clock>>
coreVars  == <<lpc, largs, stream, lpos, rows_buffer, processed, lret, core,
              coreTableExists, yielded, stmts, coreBefore>>
concVars  == <<cdata, cpc, crows, cidx, pend, locked, cret>>
helperVars == <<hin, hfn, hout>>
regVars   == <<tables, written, rcall, rres>>
vars      == <<max_retries, dbFaulty, fetchVars, rawVars, coreVars, concVars, helperVars,
               regVars>>

---------------------------------------------------------------------------
(* Bounds of the model. *)

MaxRetries == 2     \* max_retries ranges over 1..MaxRetries
MaxRecords == 3     \* an upstream dataset holds at most MaxRecords records
MaxApiPage == 2     \* the API serves at most MaxApiPage records per page
MaxPageSize == 2    \* explicit page_size arguments range over 1..MaxPageSize
MaxClock == 2       \* calls that write start while clock < MaxClock

(* Program constants. *)

RAW_PAGE_SIZE_DEFAULT == 500    \* getattr(settings, "RAW_PAGE_SIZE", 500)

Years == {2020, 2021}
Base == "https://educationdata.urban.org/api/v1/college-university/"

---------------------------------------------------------------------------
(* JSON values. *)

JNull     == [t |-> "null"]
JInt(n)   == [t |-> "int", v |-> n]
JStr(s)   == [t |-> "str", v |-> s]
JBool(b)  == [t |-> "bool", v |-> b]
JObj(f)   == [t |-> "obj", f |-> f]
JList(xs) == [t |-> "list", v |-> xs]

(* A float is num * 10^exp with num not a multiple of 10 (0.0 is 0 * 10^0), *)
(* or one of inf, -inf, nan.                                                *)
RECURSIVE JFloat(_, _)
JFloat(num, exp) ==
    IF num = 0 THEN [t |-> "float", kind |-> "fin", num |-> 0, exp |-> 0]
    ELSE IF num % 10 = 0 THEN JFloat(num \div 10, exp + 1)
    ELSE [t |-> "float", kind |-> "fin", num |-> num, exp |-> exp]
JInf      == [t |-> "float", kind |-> "inf", num |-> 0, exp |-> 0]
JNegInf   == [t |-> "float", kind |-> "-inf", num |-> 0, exp |-> 0]
JNaN      == [t |-> "float", kind |-> "nan", num |-> 0, exp |-> 0]

(* The integer 10^400: an int that json decodes and no float can hold. *)
BigIntDigits == 401
JBigInt   == [t |-> "bigint"]

(* The outcome of a call that raises exc. *)
Raised(exc) == [t |-> "raise", exc |-> exc]

Min(a, b) == IF a < b THEN a ELSE b
Max(a, b) == IF a > b THEN a ELSE b

RECURSIVE Concat(_)
Concat(ss) == IF ss = <<>> THEN <<>> ELSE Head(ss) \o Concat(Tail(ss))

(* The sequences over S of length at most n. *)
RECURSIVE SeqsUpTo(_, _)
SeqsUpTo(S, n) ==
    IF n = 0 THEN {<<>>}
    ELSE LET shorter == SeqsUpTo(S, n - 1)
         IN  shorter \cup {Append(s, x) : s \in {q \in shorter : Len(q) = n - 1}, x \in S}

(* The records the upstream serves: record i is institution i.  The odd   *)
(* ones carry their own year and name the institution `inst_name`, the     *)
(* even ones omit the year and use the older key `instnm`.                 *)
Rec(i) ==
    IF i % 2 = 1
    THEN JObj([k \in {"unitid", "year", "inst_name"} |->
                CASE k = "unitid" -> JInt(i)
                  [] k = "year" -> JInt(2020)
                  [] OTHER -> JStr(<<"U">>)])
    ELSE JObj([k \in {"unitid", "instnm"} |->
                IF k = "unitid" THEN JInt(i) ELSE JStr(<<"X">>)])

(* The upstream's dataset of n records. *)
Dataset(n) == [i \in 1..n |-> Rec(i)]

Datasets == {Dataset(n) : n \in 0..MaxRecords}

---------------------------------------------------------------------------
(* The HTTP API (the server side of etl/http.py).                          *)
(*                                                                         *)
(* A URL is [base, stem, year, page]; a `next` cursor is absent, null or a *)
(* string that is either an absolute URL or a path relative to the API     *)
(* base.  A page body is [results, next]; `results` is an array, or is     *)
(* malformed: absent, null, or a string.                                   *)

NoResp == [results |-> [t |-> "none"], next |-> [t |-> "none"]]

Slice(s, lo, hi) ==     \* Python's s[lo:hi] for 0 <= lo
    IF lo >= Min(hi, Len(s)) THEN <<>> ELSE SubSeq(s, lo + 1, Min(hi, Len(s)))

NumApiPages(n, per) == Max(1, (n + per - 1) \div per)

NextCursor(stem, year, k, last, abs) ==
    IF k = last THEN [t |-> "absent"]
    ELSE IF abs THEN [t |-> "url", abs |-> TRUE,
                      u |-> [base |-> Base, stem |-> stem, year |-> year, page |-> k + 1]]
    ELSE [t |-> "url", abs |-> FALSE,
          u |-> [stem |-> stem, year |-> year, page |-> k + 1]]

(* The chain of pages that serves dataset `data`, `per` records a page.    *)
Paginate(data, per, abs, stem, year) ==
    [k \in 1..NumApiPages(Len(data), per) |->
        [results |-> [t |-> "array", v |-> Slice(data, (k - 1) * per, k * per)],
         next    |-> NextCursor(stem, year, k, NumApiPages(Len(data), per), abs)]]

MalformedResults == {[t |-> "absent"], [t |-> "null"], [t |-> "str", v |-> <<"e">>]}

Corrupt(chain, k, bad) == [chain EXCEPT ![k].results = bad]

WellFormedChains(stem, year) ==
    {Paginate(d, per, abs, stem, year) :
        d \in Datasets, per \in 1..MaxApiPage, abs \in BOOLEAN}

(* What the fetcher is run against: every chain, and every chain with one *)
(* page's `results` malformed.                                             *)
FetchChains(stem, year) ==
    WellFormedChains(stem, year) \cup
    UNION {{Corrupt(c, k, bad) : k \in 1..Len(c), bad \in MalformedResults} :
             c \in WellFormedChains(stem, year)}

(* What the archive runs are run against: the datasets, served MaxApiPage *)
(* records a page with absolute cursors.                                   *)
ArchiveChains(stem, year) ==
    {Paginate(d, MaxApiPage, TRUE, stem, year) : d \in Datasets}

IsMalformed(body) == body.results.t # "array"

---------------------------------------------------------------------------
(* etl/http.py *)

(* registry.py 42: "ipeds/directory/{year}/". *)
RegistryPath == [stem |-> "ipeds/directory", template |-> TRUE]

EndpointPaths == {RegistryPath, [stem |-> "ipeds/directory", template |-> FALSE]}

(* http.py 96-104: "ipeds/directory/{year}/" is formatted, "ipeds/directory/" *)
(* gets the year appended; both give <base>ipeds/directory/<year>/.           *)
FirstUrl(endpoint_path, year) ==
    [base |-> Base, stem |-> endpoint_path.stem, year |-> year, page |-> 1]

(* http.py 118: an absolute `next` is used as is, a relative one is joined *)
(* to the base.                                                            *)
ResolveNext(cursor) ==
    IF cursor.abs THEN cursor.u
    ELSE [base |-> Base, stem |-> cursor.u.stem, year |-> cursor.u.year,
          page |-> cursor.u.page]

(* A loop that stops after the first page. *)
NextIsFalsyAlways(cursor) == TRUE

(* http.py 116: `if not next_url`. *)
NextIsFalsy(cursor) == cursor.t \in {"absent", "null"}

(* http.py 112: all_results.extend(data.get("results", [])).  A missing key *)
(* extends by nothing, a string by its characters, null raises TypeError.   *)
ExtendWith(results) ==
    CASE results.t = "array"  -> [err |-> FALSE, items |-> results.v]
      [] results.t = "absent" -> [err |-> FALSE, items |-> <<>>]
      [] results.t = "str"    -> [err |-> FALSE,
                                  items |-> [i \in 1..Len(results.v) |-> JStr(<<results.v[i]>>)]]
      [] OTHER                -> [err |-> TRUE, items |-> <<>>]

(* Loops that make one attempt too few, and one too many. *)
RetryRangeShort == max_retries - 1
RetryRangeLong == max_retries + 1

(* http.py 64: for attempt in range(max_retries). *)
RetryRange == max_retries

(* A loop that is left with `break`: the pages fetched so far are returned. *)
OnExhaustedBreak == "done"

(* http.py 79: what follows the loop once every attempt has failed. *)
OnExhausted == "raised"

(* The server's answer to a GET of u. *)
Serve(u) == upstream[u.page]

(* fetch_endpoint_data is entered (http.py 93-104). *)
FetchEnter(endpoint_path, year, chain) ==
    /\ upstream' = chain
    /\ url' = FirstUrl(endpoint_path, year)
    /\ attempt' = 0
    /\ resp' = NoResp
    /\ all_results' = <<>>
    /\ requests' = <<>>
    /\ ferr' = "none"
    /\ fpc' = "get"

(* The caller of fetch_endpoint_data sees it raise. *)
CallerAfterFetch(outcome) ==
    IF ipc = "fetching" /\ outcome = "raised" THEN "raised" ELSE ipc

(* One attempt of get_with_retries fails with a RequestException (timeout, *)
(* connection error, non-2xx status); http.py 75-79.                       *)
HttpFail ==
    /\ fpc = "get"
    /\ attempt < RetryRange
    /\ requests' = Append(requests, [page |-> url.page, ok |-> FALSE])
    /\ attempt' = attempt + 1
    /\ IF attempt + 1 >= RetryRange
       THEN /\ fpc' = OnExhausted
            /\ ferr' = "exhausted"
            /\ ipc' = CallerAfterFetch(OnExhausted)
       ELSE /\ fpc' = "get"
            /\ UNCHANGED <<ferr, ipc>>
    /\ UNCHANGED <<helperVars, regVars, max_retries, dbFaulty, upstream, url, resp, all_results>>
    /\ UNCHANGED <<call, ret, prev, rawBefore, schemaExists, rawTableExists, raw,
                   rows_to_write, clock, coreVars, concVars>>

(* One attempt succeeds: get_with_retries returns the response and          *)
(* fetch_endpoint_data takes the page in (http.py 66-73, 109-121).          *)
HttpOk ==
    /\ fpc = "get"
    /\ attempt < RetryRange
    /\ requests' = Append(requests, [page |-> url.page, ok |-> TRUE])
    /\ resp' = Serve(url)
    /\ LET body == Serve(url)
           ext  == ExtendWith(body.results)
       IN  IF ext.err
           THEN /\ fpc' = "raised"
                /\ ferr' = "malformed"
                /\ ipc' = CallerAfterFetch("raised")
                /\ UNCHANGED <<all_results, url, attempt>>
           ELSE /\ all_results' = all_results \o ext.items
                /\ UNCHANGED <<ferr, ipc>>
                /\ IF NextIsFalsy(body.next)
                   THEN /\ fpc' = "done"
                        /\ UNCHANGED <<url, attempt>>
                   ELSE /\ fpc' = "get"
                        /\ url' = ResolveNext(body.next)
                        /\ attempt' = 0
    /\ UNCHANGED <<helperVars, regVars, max_retries, dbFaulty, upstream>>
    /\ UNCHANGED <<call, ret, prev, rawBefore, schemaExists, rawTableExists, raw,
                   rows_to_write, clock, coreVars, concVars>>

---------------------------------------------------------------------------
(* etl/raw_io.py *)

(* raw_io.py 57-70: the digest of the canonical JSON of a chunk.  Objects  *)
(* are functions here, so the key order that sort_keys removes is already  *)
(* absent; the digest is taken to be free of collisions.                   *)
StableJsonHash(chunk) == [sha1 |-> chunk]

(* raw_io.py 160: ps = page_size or getattr(settings, "RAW_PAGE_SIZE", 500). *)
(* page_size 0 stands for None (and for 0, which is falsy as well).          *)
EffectivePageSize(page_size) ==
    IF page_size = 0 THEN RAW_PAGE_SIZE_DEFAULT ELSE page_size

(* A range that always has a first start, even for no records. *)
ChunkStartsAtLeastOne(n, ps) == {i \in 0..Max(n - 1, 0) : i % ps = 0}

(* raw_io.py 161: [all_records[i:i + ps] for i in range(0, len(all_records), ps)]. *)
ChunkStarts(n, ps) == {i \in 0..(n - 1) : i % ps = 0}

(* Chunks that overlap by one record. *)
ChunkAtOverlap(all_records, ps, k) == Slice(all_records, (k - 1) * ps, (k - 1) * ps + ps + 1)

ChunkAt(all_records, ps, k) == Slice(all_records, (k - 1) * ps, (k - 1) * ps + ps)

Chunks(all_records, ps) ==
    [k \in 1..Cardinality(ChunkStarts(Len(all_records), ps)) |->
        ChunkAt(all_records, ps, k)]

(* raw_io.py 173: the synthetic source_url of a page row. *)
SourceUrl(endpoint_path, year, page_number, ps) ==
    [base |-> Base, path |-> endpoint_path, year |-> year, page |-> page_number,
     pagesize |-> ps]

(* raw_io.py 168-178: rows_to_write. *)
BuildRows(endpoint_path, year, all_records, ps, now) ==
    [k \in 1..Len(Chunks(all_records, ps)) |->
        [year         |-> year,
         page_number  |-> k,
         source_url   |-> SourceUrl(endpoint_path, year, k, ps),
         source_hash  |-> StableJsonHash(Chunks(all_records, ps)[k]),
         ingested_at  |-> now,
         record_count |-> Len(Chunks(all_records, ps)[k]),
         payload      |-> Chunks(all_records, ps)[k]]]

RowsAt(table, year, page_number) ==
    {r \in table : r.year = year /\ r.page_number = page_number}

(* An upsert without the hash gate. *)
HashDiffersAlways(stored, new) == TRUE

(* raw_io.py 192: the WHERE of DO UPDATE. *)
HashDiffers(stored, new) == stored.source_hash # new.source_hash

(* An upsert that replaces the content and keeps the stored ingested_at. *)
UpsertOneStaleStamp(table, row, now) ==
    IF RowsAt(table, row.year, row.page_number) = {}
    THEN [ok |-> TRUE, table |-> table \cup {row}]
    ELSE [ok |-> TRUE,
          table |-> {IF r \in RowsAt(table, row.year, row.page_number) /\ HashDiffers(r, row)
                     THEN [row EXCEPT !.ingested_at = r.ingested_at]
                     ELSE r : r \in table}]

(* A plain INSERT: a row whose key is already stored raises. *)
UpsertOnePlainInsert(table, row, now) ==
    IF RowsAt(table, row.year, row.page_number) = {}
    THEN [ok |-> TRUE, table |-> table \cup {row}]
    ELSE [ok |-> FALSE, table |-> table]

(* raw_io.py 181-192: INSERT ... ON CONFLICT (year, page_number) DO UPDATE  *)
(* SET payload, source_url, source_hash, record_count = EXCLUDED.*,         *)
(* ingested_at = now() WHERE the stored hash is distinct from the new one.  *)
(* [ok, table]: ok is FALSE when the statement raises.                      *)
UpsertOne(table, row, now) ==
    IF RowsAt(table, row.year, row.page_number) = {}
    THEN [ok |-> TRUE, table |-> table \cup {row}]
    ELSE [ok |-> TRUE,
          table |-> {IF r \in RowsAt(table, row.year, row.page_number) /\ HashDiffers(r, row)
                     THEN [row EXCEPT !.ingested_at = now]
                     ELSE r : r \in table}]

(* raw_io.py 196-197: the rows are executed in order in one transaction. *)
RECURSIVE UpsertAll(_, _, _)
UpsertAll(table, rows, now) ==
    IF rows = <<>> THEN [ok |-> TRUE, table |-> table]
    ELSE LET one == UpsertOne(table, Head(rows), now)
         IN  IF one.ok THEN UpsertAll(one.table, Tail(rows), now)
             ELSE [ok |-> FALSE, table |-> table]

(* The rows at which a faulty database can fail the statement (a lost     *)
(* connection, a timeout, a value it rejects); 0: at none.                *)
FailPoints(rows) == IF dbFaulty THEN 0..Len(rows) ELSE {0}

(* raw_io.py 197: conn.execute(upsert_sql, rows_to_write) runs the upsert  *)
(* row by row; it raises at row failAt, the rows before it written in the  *)
(* open transaction.                                                       *)
ExecuteRows(table, rows, now, failAt) ==
    IF failAt = 0 THEN UpsertAll(table, rows, now)
    ELSE [ok |-> FALSE, table |-> UpsertAll(table, SubSeq(rows, 1, failAt - 1), now).table]

(* A connection in autocommit: every row written stays written. *)
EngineBeginAutocommit(table, res) == res.table

(* raw_io.py 196: with engine.begin() as conn: the transaction commits     *)
(* when the block ends and rolls back when it raises.                      *)
EngineBegin(table, res) == IF res.ok THEN res.table ELSE table

NoCall == [year |-> 0, page_size |-> 0, endpoint_path |-> [stem |-> "", template |-> FALSE]]
NoPrev == [valid |-> FALSE, year |-> 0, ps |-> 0, records |-> <<>>, rawAfter |-> {}]

(* The call that has just ended, as the next call will remember it. *)
Completed ==
    IF ipc = "done"
    THEN [valid |-> TRUE, year |-> call.year, ps |-> EffectivePageSize(call.page_size),
          records |-> all_results, rawAfter |-> raw]
    ELSE prev

(* A pre-check that never fails. *)
SchemaMissingNever == FALSE

(* raw_io.py 91-99: the pre-check of ensure_raw_table on the namespace. *)
SchemaMissing == ~schemaExists

(* insert_raw_payloads(endpoint, year, endpoint_path, page_size) is called: *)
(* ensure_raw_table (raw_io.py 85-121), then the fetch begins (155).        *)
InsertStart(year, endpoint_path, page_size, chain) ==
    /\ ipc \in {"idle", "done", "raised"}
    /\ clock < MaxClock
    /\ clock' = clock + 1
    /\ prev' = Completed
    /\ rawBefore' = raw
    /\ call' = [year |-> year, page_size |-> page_size, endpoint_path |-> endpoint_path]
    /\ ret' = -1
    /\ rows_to_write' = <<>>
    /\ IF SchemaMissing
       THEN /\ ipc' = "raised"
            /\ fpc' = "idle"
            /\ UNCHANGED <<upstream, url, attempt, resp, all_results, requests, ferr>>
            /\ UNCHANGED rawTableExists
       ELSE /\ rawTableExists' = TRUE
            /\ ipc' = "fetching"
            /\ FetchEnter(endpoint_path, year, chain)
    /\ UNCHANGED <<helperVars, regVars, max_retries, dbFaulty, schemaExists, raw, coreVars, concVars>>

(* The fetch has returned: chunk, build the rows, upsert (raw_io.py 156-200). *)
InsertWrite ==
    /\ ipc = "fetching"
    /\ fpc = "done"
    /\ LET ps   == EffectivePageSize(call.page_size)
           rows == BuildRows(call.endpoint_path, call.year, all_results, ps, clock)
       IN  IF Len(Chunks(all_results, ps)) = 0
           THEN /\ ret' = 0
                /\ ipc' = "done"
                /\ UNCHANGED <<raw, rows_to_write>>
           ELSE \E failAt \in FailPoints(rows) :
                  LET res == ExecuteRows(raw, rows, clock, failAt)
                  IN  /\ rows_to_write' = rows
                      /\ raw' = EngineBegin(raw, res)
                      /\ IF res.ok
                         THEN /\ ret' = Len(Chunks(all_results, ps))
                              /\ ipc' = "done"
                         ELSE /\ ipc' = "raised"
                              /\ UNCHANGED ret
    /\ UNCHANGED <<helperVars, regVars, max_retries, dbFaulty, fetchVars>>
    /\ UNCHANGED <<call, prev, rawBefore, schemaExists, rawTableExists, clock, coreVars, concVars>>

---------------------------------------------------------------------------
(* etl/mappers/directory.py *)

IsSpace(c) == c \in {" ", "\t", "\n", "\r", "\f"}

RECURSIVE LStrip(_)
LStrip(s) == IF s # <<>> /\ IsSpace(Head(s)) THEN LStrip(Tail(s)) ELSE s

RECURSIVE RStrip(_)
RStrip(s) == IF s # <<>> /\ IsSpace(s[Len(s)]) THEN RStrip(SubSeq(s, 1, Len(s) - 1)) ELSE s

(* str.strip() *)
Strip(s) == RStrip(LStrip(s))

MissingCodes == {-1, -2, -3}
MissingCodeStrings == {<<"-", "1">>, <<"-", "2">>, <<"-", "3">>}

(* A predicate that takes every falsy value for missing. *)
IsMissingFalsy(v) ==
    CASE v.t = "null"  -> TRUE
      [] v.t = "str"   -> Strip(v.v) = <<>> \/ Strip(v.v) \in MissingCodeStrings
      [] v.t = "int"   -> v.v \in MissingCodes \cup {0}
      [] v.t = "bool"  -> ~v.v
      [] v.t = "float" -> v.kind = "fin" /\ v.exp = 0 /\ v.num \in MissingCodes \cup {0}
      [] OTHER         -> FALSE

(* directory.py 30-52 *)
IsMissing(v) ==
    CASE v.t = "null"  -> TRUE
      [] v.t = "str"   -> Strip(v.v) = <<>> \/ Strip(v.v) \in MissingCodeStrings
      [] v.t = "int"   -> v.v \in MissingCodes
      [] v.t = "float" -> v.kind = "fin" /\ v.exp = 0 /\ v.num \in MissingCodes   \* -1.0 == -1
      [] OTHER         -> FALSE    \* False == 0 and True == 1; a list or an object equals no number

(* A lookup that stops at the first candidate present, missing or not. *)
RECURSIVE PickFirstPresent(_, _)
PickFirstPresent(row, keys) ==
    IF keys = <<>> THEN JNull
    ELSE IF Head(keys) \in DOMAIN row
         THEN (IF IsMissing(row[Head(keys)]) THEN JNull ELSE row[Head(keys)])
         ELSE PickFirstPresent(row, Tail(keys))

(* directory.py 55-67: row is the function of a JSON object. *)
RECURSIVE Pick(_, _)
Pick(row, keys) ==
    IF keys = <<>> THEN JNull
    ELSE IF Head(keys) \in DOMAIN row /\ ~IsMissing(row[Head(keys)])
         THEN row[Head(keys)]
         ELSE Pick(row, Tail(keys))

Digits == {"0", "1", "2", "3", "4", "5", "6", "7", "8", "9"}

DigitVal(c) ==
    CASE c = "0" -> 0 [] c = "1" -> 1 [] c = "2" -> 2 [] c = "3" -> 3 [] c = "4" -> 4
      [] c = "5" -> 5 [] c = "6" -> 6 [] c = "7" -> 7 [] c = "8" -> 8 [] c = "9" -> 9

DigitChar(d) ==
    CASE d = 0 -> "0" [] d = 1 -> "1" [] d = 2 -> "2" [] d = 3 -> "3" [] d = 4 -> "4"
      [] d = 5 -> "5" [] d = 6 -> "6" [] d = 7 -> "7" [] d = 8 -> "8" [] d = 9 -> "9"

IsDigit(c) == c \in Digits

RECURSIVE DigitsValue(_, _)
DigitsValue(ds, acc) ==
    IF ds = <<>> THEN acc ELSE DigitsValue(Tail(ds), acc * 10 + DigitVal(Head(ds)))

(* str(n) for n >= 0 *)
RECURSIVE NatToStr(_)
NatToStr(n) == IF n < 10 THEN <<DigitChar(n)>> ELSE NatToStr(n \div 10) \o <<DigitChar(n % 10)>>

(* int(s) for a string: surrounding whitespace, an optional sign, digits   *)
(* with single underscores between them; anything else is a ValueError.    *)
PyIntOfStr(s) ==
    LET t    == Strip(s)
        neg  == t # <<>> /\ t[1] = "-"
        body == IF t # <<>> /\ t[1] \in {"+", "-"} THEN Tail(t) ELSE t
        ok   == /\ body # <<>>
                /\ \A i \in 1..Len(body) : body[i] \in Digits \cup {"_"}
                /\ IsDigit(body[1]) /\ IsDigit(body[Len(body)])
                /\ \A i \in 1..(Len(body) - 1) : ~(body[i] = "_" /\ body[i + 1] = "_")
        n    == DigitsValue(SelectSeq(body, IsDigit), 0)
    IN  [ok |-> ok, n |-> IF ~ok THEN 0 ELSE IF neg THEN 0 - n ELSE n]

RECURSIVE Pow10(_)
Pow10(k) == IF k = 0 THEN 1 ELSE 10 * Pow10(k - 1)

Abs(n) == IF n < 0 THEN 0 - n ELSE n

(* int(x) for a finite float: truncation towards zero. *)
TruncFloat(x) ==
    IF x.exp >= 0 THEN x.num * Pow10(x.exp)
    ELSE IF x.num < 0 THEN 0 - (Abs(x.num) \div Pow10(0 - x.exp))
    ELSE x.num \div Pow10(0 - x.exp)

(* directory.py 70-86: int() raises ValueError for a malformed string and  *)
(* for nan, TypeError for a list or an object, which are caught, and       *)
(* OverflowError for an infinity, which is not.                            *)
ToInt(v) ==
    IF IsMissing(v) THEN JNull
    ELSE CASE v.t = "int"    -> v
           [] v.t = "bigint" -> v
           [] v.t = "bool"   -> JInt(IF v.v THEN 1 ELSE 0)
           [] v.t = "str"    -> IF PyIntOfStr(Strip(v.v)).ok
                                THEN JInt(PyIntOfStr(Strip(v.v)).n) ELSE JNull
           [] v.t = "float"  -> CASE v.kind = "fin" -> JInt(TruncFloat(v))
                                  [] v.kind = "nan" -> JNull
                                  [] OTHER -> Raised("OverflowError")
           [] OTHER          -> JNull     \* int() of a list or an object: TypeError

(* The least index of s that holds a character of C, 0 if there is none. *)
IndexOf(s, C) ==
    IF \E i \in 1..Len(s) : s[i] \in C
    THEN CHOOSE i \in 1..Len(s) : s[i] \in C /\ \A j \in 1..(i - 1) : s[j] \notin C
    ELSE 0

(* Digits with single underscores between them. *)
IsDigitRun(body) ==
    /\ body # <<>>
    /\ \A i \in 1..Len(body) : body[i] \in Digits \cup {"_"}
    /\ IsDigit(body[1]) /\ IsDigit(body[Len(body)])
    /\ \A i \in 1..(Len(body) - 1) : ~(body[i] = "_" /\ body[i + 1] = "_")

LowerChar(c) ==
    CASE c = "I" -> "i" [] c = "N" -> "n" [] c = "F" -> "f" [] c = "T" -> "t"
      [] c = "Y" -> "y" [] c = "A" -> "a" [] c = "E" -> "e" [] OTHER -> c

Lower(s) == [i \in 1..Len(s) |-> LowerChar(s[i])]

(* The decimal exponents a double spans: a value of 10^309 or more is inf, *)
(* one below 10^-324 is 0.0 (to the decade).                               *)
FloatMaxExp10 == 308
FloatMinExp10 == -324

(* float(s) for a string: surrounding whitespace, an optional sign, then   *)
(* inf, infinity or nan in any case, or digits with an optional fraction   *)
(* and an optional exponent; anything else is a ValueError.  The parse is  *)
(* written as the stages below, each handing its parts to the next.        *)

(* The value n * 10^exp (n >= 0), signed. *)
FloatOfNumber(neg, n, exp) ==
    CASE n = 0 -> [ok |-> TRUE, x |-> JFloat(0, 0)]
      [] Len(NatToStr(n)) - 1 + exp > FloatMaxExp10 ->
            [ok |-> TRUE, x |-> IF neg THEN JNegInf ELSE JInf]
      [] Len(NatToStr(n)) - 1 + exp < FloatMinExp10 -> [ok |-> TRUE, x |-> JFloat(0, 0)]
      [] OTHER -> [ok |-> TRUE, x |-> JFloat(IF neg THEN 0 - n ELSE n, exp)]

(* The integer part, the fraction and the exponent's digits. *)
FloatOfFields(neg, ip, hasDot, fp, hasExp, eNeg, eBody) ==
    IF /\ IF hasDot
          THEN \/ IsDigitRun(ip) /\ (fp = <<>> \/ IsDigitRun(fp))
               \/ ip = <<>> /\ IsDigitRun(fp)
          ELSE IsDigitRun(ip)
       /\ hasExp => IsDigitRun(eBody)
    THEN FloatOfNumber(neg,
                       DigitsValue(SelectSeq(ip \o fp, IsDigit), 0),
                       (IF ~hasExp THEN 0
                        ELSE IF eNeg THEN 0 - DigitsValue(SelectSeq(eBody, IsDigit), 0)
                        ELSE DigitsValue(SelectSeq(eBody, IsDigit), 0))
                       - Len(SelectSeq(fp, IsDigit)))
    ELSE [ok |-> FALSE, x |-> JNaN]

(* The mantissa and the exponent, each still with its sign or point. *)
FloatOfParts(neg, mant, hasExp, expo) ==
    LET dPos == IndexOf(mant, {"."})
    IN  FloatOfFields(neg,
                      IF dPos = 0 THEN mant ELSE SubSeq(mant, 1, dPos - 1),
                      dPos # 0,
                      IF dPos = 0 THEN <<>> ELSE SubSeq(mant, dPos + 1, Len(mant)),
                      hasExp,
                      expo # <<>> /\ expo[1] = "-",
                      IF expo # <<>> /\ expo[1] \in {"+", "-"} THEN Tail(expo) ELSE expo)

(* The text after the sign. *)
FloatOfBody(neg, body) ==
    LET ePos == IndexOf(body, {"e", "E"})
    IN  CASE Lower(body) \in {<<"i", "n", "f">>, <<"i", "n", "f", "i", "n", "i", "t", "y">>} ->
                [ok |-> TRUE, x |-> IF neg THEN JNegInf ELSE JInf]
          [] Lower(body) = <<"n", "a", "n">> -> [ok |-> TRUE, x |-> JNaN]
          [] OTHER ->
                FloatOfParts(neg,
                             IF ePos = 0 THEN body ELSE SubSeq(body, 1, ePos - 1),
                             ePos # 0,
                             IF ePos = 0 THEN <<>> ELSE SubSeq(body, ePos + 1, Len(body)))

FloatOfTrimmed(t) ==
    FloatOfBody(t # <<>> /\ t[1] = "-",
                IF t # <<>> /\ t[1] \in {"+", "-"} THEN Tail(t) ELSE t)

PyFloatOfStr(s) == FloatOfTrimmed(Strip(s))

(* The float parsed, None after a ValueError. *)
ParsedOrNull(r) == IF r.ok THEN r.x ELSE JNull

(* directory.py 89-105: float() raises ValueError for a malformed string,  *)
(* TypeError for a list or an object, which are caught, and OverflowError  *)
(* for an int too large for a float, which is not.                         *)
ToFloat(v) ==
    IF IsMissing(v) THEN JNull
    ELSE CASE v.t = "int"    -> JFloat(v.v, 0)
           [] v.t = "bigint" -> Raised("OverflowError")
           [] v.t = "bool"   -> JFloat(IF v.v THEN 1 ELSE 0, 0)
           [] v.t = "str"    -> ParsedOrNull(PyFloatOfStr(Strip(v.v)))
           [] v.t = "float"  -> v
           [] OTHER          -> JNull     \* float() of a list or an object: TypeError

(* repr of a finite float in positional notation (Python switches to       *)
(* exponent notation below 1e-4 and from 1e16 on).                         *)
FloatRepr(x) ==
    LET sign == IF x.num < 0 THEN <<"-">> ELSE <<>>
        ds   == NatToStr(Abs(x.num))
        k    == 0 - x.exp
        pad  == IF Len(ds) > k THEN ds ELSE [i \in 1..(k + 1 - Len(ds)) |-> "0"] \o ds
    IN  IF x.exp >= 0
        THEN sign \o ds \o [i \in 1..x.exp |-> "0"] \o <<".", "0">>
        ELSE sign \o SubSeq(pad, 1, Len(pad) - k) \o <<".">> \o SubSeq(pad, Len(pad) - k + 1, Len(pad))

(* str(v); the items of a list are shown by repr, strings in quotes. *)
RECURSIVE PyStr(_)
PyStr(v) ==
    CASE v.t = "str"    -> v.v
      [] v.t = "int"    -> IF v.v < 0 THEN <<"-">> \o NatToStr(0 - v.v) ELSE NatToStr(v.v)
      [] v.t = "bigint" -> [i \in 1..BigIntDigits |-> IF i = 1 THEN "1" ELSE "0"]
      [] v.t = "bool"   -> IF v.v THEN <<"T", "r", "u", "e">> ELSE <<"F", "a", "l", "s", "e">>
      [] v.t = "float"  -> CASE v.kind = "fin"  -> FloatRepr(v)
                             [] v.kind = "inf"  -> <<"i", "n", "f">>
                             [] v.kind = "-inf" -> <<"-", "i", "n", "f">>
                             [] OTHER           -> <<"n", "a", "n">>
      [] v.t = "null"   -> <<"N", "o", "n", "e">>
      [] v.t = "list"   ->
            <<"[">> \o
            Concat([i \in 1..Len(v.v) |->
                      (IF i > 1 THEN <<",", " ">> ELSE <<>>) \o
                      (IF v.v[i].t = "str" THEN <<"'">> \o v.v[i].v \o <<"'">>
                       ELSE PyStr(v.v[i]))]) \o
            <<"]">>
      [] OTHER          -> <<"{", "}">>   \* the repr of an object, never blank

(* directory.py 108-119 *)
ToStr(v) ==
    IF IsMissing(v) THEN JNull
    ELSE IF Strip(PyStr(v)) = <<>> THEN JNull ELSE JStr(Strip(PyStr(v)))

---------------------------------------------------------------------------
(* etl/registry.py *)

(* registry.py 49-156: the keys of REGISTRY["directory"]["schema"], in the *)
(* order of declaration.                                                   *)
SchemaColumns == <<
    "unitid", "year", "opeid", "inst_name", "inst_alias", "address",
    "city", "state_abbr", "zip", "phone_number", "url_school",
    "url_fin_aid", "url_application", "url_netprice", "url_veterans",
    "url_athletes", "url_disability_services", "ein", "duns", "ueis",
    "chief_admin_name", "chief_admin_title", "inst_system_name", "fips",
    "county_name", "county_fips", "region", "urban_centric_locale", "cbsa",
    "cbsa_type", "csa", "necta", "congress_district_id", "latitude",
    "longitude", "inst_status", "sector", "inst_control",
    "institution_level", "inst_category", "inst_size", "degree_granting",
    "title_iv_indicator", "hbcu", "tribal_college", "land_grant",
    "hospital", "medical_degree", "open_public", "currently_active_ipeds",
    "postsec_public_active", "postsec_public_active_title_iv",
    "primarily_postsecondary", "offering_highest_degree",
    "offering_highest_level", "offering_undergrad", "offering_grad",
    "reporting_method", "inst_system_flag", "comparison_group",
    "comparison_group_custom", "newid", "date_closed", "year_deleted",
    "cc_basic_2000", "cc_basic_2010", "cc_basic_2015", "cc_basic_2018",
    "cc_basic_2021", "cc_instruc_undergrad_2010",
    "cc_instruc_undergrad_2015", "cc_instruc_undergrad_2018",
    "cc_instruc_undergrad_2021", "cc_instruc_grad_2010",
    "cc_instruc_grad_2015", "cc_instruc_grad_2018", "cc_instruc_grad_2021",
    "cc_undergrad_2010", "cc_undergrad_2015", "cc_undergrad_2018",
    "cc_undergrad_2021", "cc_enroll_2010", "cc_enroll_2015",
    "cc_enroll_2018", "cc_enroll_2021", "cc_size_setting_2010",
    "cc_size_setting_2015", "cc_size_setting_2018", "cc_size_setting_2021" >>

SchemaKeys == {SchemaColumns[i] : i \in 1..Len(SchemaColumns)}

(* registry.py 49-156: the SQL type declared for a column. *)
SchemaType(c) ==
    CASE c = "unitid" -> "INTEGER NOT NULL"
      [] c = "year" -> "INTEGER NOT NULL"
      [] c = "opeid" -> "TEXT"
      [] c = "inst_name" -> "TEXT"
      [] c = "inst_alias" -> "TEXT"
      [] c = "address" -> "TEXT"
      [] c = "city" -> "TEXT"
      [] c = "state_abbr" -> "TEXT"
      [] c = "zip" -> "TEXT"
      [] c = "phone_number" -> "TEXT"
      [] c = "url_school" -> "TEXT"
      [] c = "url_fin_aid" -> "TEXT"
      [] c = "url_application" -> "TEXT"
      [] c = "url_netprice" -> "TEXT"
      [] c = "url_veterans" -> "TEXT"
      [] c = "url_athletes" -> "TEXT"
      [] c = "url_disability_services" -> "TEXT"
      [] c = "ein" -> "TEXT"
      [] c = "duns" -> "TEXT"
      [] c = "ueis" -> "TEXT"
      [] c = "chief_admin_name" -> "TEXT"
      [] c = "chief_admin_title" -> "TEXT"
      [] c = "inst_system_name" -> "TEXT"
      [] c = "fips" -> "INTEGER"
      [] c = "county_name" -> "TEXT"
      [] c = "county_fips" -> "INTEGER"
      [] c = "region" -> "INTEGER"
      [] c = "urban_centric_locale" -> "INTEGER"
      [] c = "cbsa" -> "INTEGER"
      [] c = "cbsa_type" -> "INTEGER"
      [] c = "csa" -> "INTEGER"
      [] c = "necta" -> "INTEGER"
      [] c = "congress_district_id" -> "INTEGER"
      [] c = "latitude" -> "DOUBLE PRECISION"
      [] c = "longitude" -> "DOUBLE PRECISION"
      [] c = "inst_status" -> "INTEGER"
      [] c = "sector" -> "INTEGER"
      [] c = "inst_control" -> "INTEGER"
      [] c = "institution_level" -> "INTEGER"
      [] c = "inst_category" -> "INTEGER"
      [] c = "inst_size" -> "INTEGER"
      [] c = "degree_granting" -> "INTEGER"
      [] c = "title_iv_indicator" -> "INTEGER"
      [] c = "hbcu" -> "INTEGER"
      [] c = "tribal_college" -> "INTEGER"
      [] c = "land_grant" -> "INTEGER"
      [] c = "hospital" -> "INTEGER"
      [] c = "medical_degree" -> "INTEGER"
      [] c = "open_public" -> "INTEGER"
      [] c = "currently_active_ipeds" -> "INTEGER"
      [] c = "postsec_public_active" -> "INTEGER"
      [] c = "postsec_public_active_title_iv" -> "INTEGER"
      [] c = "primarily_postsecondary" -> "INTEGER"
      [] c = "offering_highest_degree" -> "INTEGER"
      [] c = "offering_highest_level" -> "INTEGER"
      [] c = "offering_undergrad" -> "INTEGER"
      [] c = "offering_grad" -> "INTEGER"
      [] c = "reporting_method" -> "INTEGER"
      [] c = "inst_system_flag" -> "INTEGER"
      [] c = "comparison_group" -> "INTEGER"
      [] c = "comparison_group_custom" -> "INTEGER"
      [] c = "newid" -> "INTEGER"
      [] c = "date_closed" -> "TEXT"
      [] c = "year_deleted" -> "INTEGER"
      [] c = "cc_basic_2000" -> "INTEGER"
      [] c = "cc_basic_2010" -> "INTEGER"
      [] c = "cc_basic_2015" -> "INTEGER"
      [] c = "cc_basic_2018" -> "INTEGER"
      [] c = "cc_basic_2021" -> "INTEGER"
      [] c = "cc_instruc_undergrad_2010" -> "INTEGER"
      [] c = "cc_instruc_undergrad_2015" -> "INTEGER"
      [] c = "cc_instruc_undergrad_2018" -> "INTEGER"
      [] c = "cc_instruc_undergrad_2021" -> "INTEGER"
      [] c = "cc_instruc_grad_2010" -> "INTEGER"
      [] c = "cc_instruc_grad_2015" -> "INTEGER"
      [] c = "cc_instruc_grad_2018" -> "INTEGER"
      [] c = "cc_instruc_grad_2021" -> "INTEGER"
      [] c = "cc_undergrad_2010" -> "INTEGER"
      [] c = "cc_undergrad_2015" -> "INTEGER"
      [] c = "cc_undergrad_2018" -> "INTEGER"
      [] c = "cc_undergrad_2021" -> "INTEGER"
      [] c = "cc_enroll_2010" -> "INTEGER"
      [] c = "cc_enroll_2015" -> "INTEGER"
      [] c = "cc_enroll_2018" -> "INTEGER"
      [] c = "cc_enroll_2021" -> "INTEGER"
      [] c = "cc_size_setting_2010" -> "INTEGER"
      [] c = "cc_size_setting_2015" -> "INTEGER"
      [] c = "cc_size_setting_2018" -> "INTEGER"
      [] c = "cc_size_setting_2021" -> "INTEGER"

(* The columns of ipeds_core.directory whose values the loader's model     *)
(* carries: the primary key, one text column with candidate keys, one      *)
(* integer column.                                                         *)
Columns == <<"unitid", "year", "inst_name", "fips">>
ColumnSet == {Columns[i] : i \in 1..Len(Columns)}

Schema == [c \in ColumnSet |-> SchemaType(c)]

PrimaryKey == <<"unitid", "year">>
PrimaryKeySet == {PrimaryKey[i] : i \in 1..Len(PrimaryKey)}

NotNull(c) == SchemaType(c) = "INTEGER NOT NULL" \/ c \in PrimaryKeySet

---------------------------------------------------------------------------
(* etl/mappers/directory.py: map_directory_row *)

(* directory.py 132-238: the keys of the dict literal map_directory_row    *)
(* returns, in the order of the literal.                                   *)
MapperKeySeq == <<
    "unitid", "year", "opeid", "inst_name", "inst_alias", "address",
    "city", "state_abbr", "zip", "phone_number", "url_school",
    "url_fin_aid", "url_application", "url_netprice", "url_veterans",
    "url_athletes", "url_disability_services", "ein", "duns", "ueis",
    "chief_admin_name", "chief_admin_title", "inst_system_name", "fips",
    "county_name", "county_fips", "region", "urban_centric_locale", "cbsa",
    "cbsa_type", "csa", "necta", "congress_district_id", "latitude",
    "longitude", "inst_status", "sector", "inst_control",
    "institution_level", "inst_category", "inst_size", "degree_granting",
    "title_iv_indicator", "hbcu", "tribal_college", "land_grant",
    "hospital", "medical_degree", "open_public", "currently_active_ipeds",
    "postsec_public_active", "postsec_public_active_title_iv",
    "primarily_postsecondary", "offering_highest_degree",
    "offering_highest_level", "offering_undergrad", "offering_grad",
    "reporting_method", "inst_system_flag", "comparison_group",
    "comparison_group_custom", "newid", "date_closed", "year_deleted",
    "cc_basic_2000", "cc_basic_2010", "cc_basic_2015", "cc_basic_2018",
    "cc_basic_2021", "cc_instruc_undergrad_2010",
    "cc_instruc_undergrad_2015", "cc_instruc_undergrad_2018",
    "cc_instruc_undergrad_2021", "cc_instruc_grad_2010",
    "cc_instruc_grad_2015", "cc_instruc_grad_2018", "cc_instruc_grad_2021",
    "cc_undergrad_2010", "cc_undergrad_2015", "cc_undergrad_2018",
    "cc_undergrad_2021", "cc_enroll_2010", "cc_enroll_2015",
    "cc_enroll_2018", "cc_enroll_2021", "cc_size_setting_2010",
    "cc_size_setting_2015", "cc_size_setting_2018", "cc_size_setting_2021" >>

MapperKeys == {MapperKeySeq[i] : i \in 1..Len(MapperKeySeq)}

Field(conv, from) == [conv |-> conv, from |-> from]

(* directory.py 134-237: the coercion helper and the candidate source keys *)
(* of each key of the literal.                                             *)
FieldOf(k) ==
    CASE k = "unitid" -> Field("_to_int", <<"unitid">>)
      [] k = "year" -> Field("_to_int", <<"year">>)
      [] k = "opeid" -> Field("_to_str", <<"opeid">>)
      [] k = "inst_name" -> Field("_to_str", <<"inst_name", "institution_name", "instnm", "name">>)
      [] k = "inst_alias" -> Field("_to_str", <<"inst_alias">>)
      [] k = "address" -> Field("_to_str", <<"address">>)
      [] k = "city" -> Field("_to_str", <<"city">>)
      [] k = "state_abbr" -> Field("_to_str", <<"state_abbr", "stabbr", "state">>)
      [] k = "zip" -> Field("_to_str", <<"zip", "zip5", "zip_code">>)
      [] k = "phone_number" -> Field("_to_str", <<"phone_number", "phone">>)
      [] k = "url_school" -> Field("_to_str", <<"url_school", "website", "web_address">>)
      [] k = "url_fin_aid" -> Field("_to_str", <<"url_fin_aid">>)
      [] k = "url_application" -> Field("_to_str", <<"url_application">>)
      [] k = "url_netprice" -> Field("_to_str", <<"url_netprice">>)
      [] k = "url_veterans" -> Field("_to_str", <<"url_veterans">>)
      [] k = "url_athletes" -> Field("_to_str", <<"url_athletes">>)
      [] k = "url_disability_services" -> Field("_to_str", <<"url_disability_services">>)
      [] k = "ein" -> Field("_to_str", <<"ein">>)
      [] k = "duns" -> Field("_to_str", <<"duns">>)
      [] k = "ueis" -> Field("_to_str", <<"ueis">>)
      [] k = "chief_admin_name" -> Field("_to_str", <<"chief_admin_name">>)
      [] k = "chief_admin_title" -> Field("_to_str", <<"chief_admin_title">>)
      [] k = "inst_system_name" -> Field("_to_str", <<"inst_system_name">>)
      [] k = "fips" -> Field("_to_int", <<"fips">>)
      [] k = "county_name" -> Field("_to_str", <<"county_name">>)
      [] k = "county_fips" -> Field("_to_int", <<"county_fips">>)
      [] k = "region" -> Field("_to_int", <<"region">>)
      [] k = "urban_centric_locale" -> Field("_to_int", <<"urban_centric_locale", "locale">>)
      [] k = "cbsa" -> Field("_to_int", <<"cbsa">>)
      [] k = "cbsa_type" -> Field("_to_int", <<"cbsa_type">>)
      [] k = "csa" -> Field("_to_int", <<"csa">>)
      [] k = "necta" -> Field("_to_int", <<"necta">>)
      [] k = "congress_district_id" -> Field("_to_int", <<"congress_district_id">>)
      [] k = "latitude" -> Field("_to_float", <<"latitude", "lat">>)
      [] k = "longitude" -> Field("_to_float", <<"longitude", "lon", "lng">>)
      [] k = "inst_status" -> Field("_to_int", <<"inst_status">>)
      [] k = "sector" -> Field("_to_int", <<"sector", "sector_cd">>)
      [] k = "inst_control" -> Field("_to_int", <<"inst_control", "control">>)
      [] k = "institution_level" -> Field("_to_int", <<"institution_level", "level", "iclevel">>)
      [] k = "inst_category" -> Field("_to_int", <<"inst_category">>)
      [] k = "inst_size" -> Field("_to_int", <<"inst_size">>)
      [] k = "degree_granting" -> Field("_to_int", <<"degree_granting">>)
      [] k = "title_iv_indicator" -> Field("_to_int", <<"title_iv_indicator">>)
      [] k = "hbcu" -> Field("_to_int", <<"hbcu">>)
      [] k = "tribal_college" -> Field("_to_int", <<"tribal_college">>)
      [] k = "land_grant" -> Field("_to_int", <<"land_grant">>)
      [] k = "hospital" -> Field("_to_int", <<"hospital">>)
      [] k = "medical_degree" -> Field("_to_int", <<"medical_degree">>)
      [] k = "open_public" -> Field("_to_int", <<"open_public">>)
      [] k = "currently_active_ipeds" -> Field("_to_int", <<"currently_active_ipeds">>)
      [] k = "postsec_public_active" -> Field("_to_int", <<"postsec_public_active">>)
      [] k = "postsec_public_active_title_iv" -> Field("_to_int", <<"postsec_public_active_title_iv">>)
      [] k = "primarily_postsecondary" -> Field("_to_int", <<"primarily_postsecondary">>)
      [] k = "offering_highest_degree" -> Field("_to_int", <<"offering_highest_degree">>)
      [] k = "offering_highest_level" -> Field("_to_int", <<"offering_highest_level">>)
      [] k = "offering_undergrad" -> Field("_to_int", <<"offering_undergrad">>)
      [] k = "offering_grad" -> Field("_to_int", <<"offering_grad">>)
      [] k = "reporting_method" -> Field("_to_int", <<"reporting_method">>)
      [] k = "inst_system_flag" -> Field("_to_int", <<"inst_system_flag">>)
      [] k = "comparison_group" -> Field("_to_int", <<"comparison_group">>)
      [] k = "comparison_group_custom" -> Field("_to_int", <<"comparison_group_custom">>)
      [] k = "newid" -> Field("_to_int", <<"newid">>)
      [] k = "date_closed" -> Field("_to_str", <<"date_closed">>)
      [] k = "year_deleted" -> Field("_to_int", <<"year_deleted">>)
      [] k = "cc_basic_2000" -> Field("_to_int", <<"cc_basic_2000">>)
      [] k = "cc_basic_2010" -> Field("_to_int", <<"cc_basic_2010">>)
      [] k = "cc_basic_2015" -> Field("_to_int", <<"cc_basic_2015">>)
      [] k = "cc_basic_2018" -> Field("_to_int", <<"cc_basic_2018">>)
      [] k = "cc_basic_2021" -> Field("_to_int", <<"cc_basic_2021">>)
      [] k = "cc_instruc_undergrad_2010" -> Field("_to_int", <<"cc_instruc_undergrad_2010">>)
      [] k = "cc_instruc_undergrad_2015" -> Field("_to_int", <<"cc_instruc_undergrad_2015">>)
      [] k = "cc_instruc_undergrad_2018" -> Field("_to_int", <<"cc_instruc_undergrad_2018">>)
      [] k = "cc_instruc_undergrad_2021" -> Field("_to_int", <<"cc_instruc_undergrad_2021">>)
      [] k = "cc_instruc_grad_2010" -> Field("_to_int", <<"cc_instruc_grad_2010">>)
      [] k = "cc_instruc_grad_2015" -> Field("_to_int", <<"cc_instruc_grad_2015">>)
      [] k = "cc_instruc_grad_2018" -> Field("_to_int", <<"cc_instruc_grad_2018">>)
      [] k = "cc_instruc_grad_2021" -> Field("_to_int", <<"cc_instruc_grad_2021">>)
      [] k = "cc_undergrad_2010" -> Field("_to_int", <<"cc_undergrad_2010">>)
      [] k = "cc_undergrad_2015" -> Field("_to_int", <<"cc_undergrad_2015">>)
      [] k = "cc_undergrad_2018" -> Field("_to_int", <<"cc_undergrad_2018">>)
      [] k = "cc_undergrad_2021" -> Field("_to_int", <<"cc_undergrad_2021">>)
      [] k = "cc_enroll_2010" -> Field("_to_int", <<"cc_enroll_2010">>)
      [] k = "cc_enroll_2015" -> Field("_to_int", <<"cc_enroll_2015">>)
      [] k = "cc_enroll_2018" -> Field("_to_int", <<"cc_enroll_2018">>)
      [] k = "cc_enroll_2021" -> Field("_to_int", <<"cc_enroll_2021">>)
      [] k = "cc_size_setting_2010" -> Field("_to_int", <<"cc_size_setting_2010">>)
      [] k = "cc_size_setting_2015" -> Field("_to_int", <<"cc_size_setting_2015">>)
      [] k = "cc_size_setting_2018" -> Field("_to_int", <<"cc_size_setting_2018">>)
      [] k = "cc_size_setting_2021" -> Field("_to_int", <<"cc_size_setting_2021">>)

Convert(conv, v) ==
    CASE conv = "_to_int"   -> ToInt(v)
      [] conv = "_to_float" -> ToFloat(v)
      [] conv = "_to_str"   -> ToStr(v)

(* One value of the literal. *)
MapField(row, k) == Convert(FieldOf(k).conv, Pick(row, FieldOf(k).from))

(* A mapper that lets the record's other keys through. *)
MapDirectoryRowPassThrough(row) ==
    [k \in MapperKeys \cup DOMAIN row |-> IF k \in MapperKeys THEN MapField(row, k) ELSE row[k]]

(* directory.py 126-238 *)
MapDirectoryRow(row) == [k \in MapperKeys |-> MapField(row, k)]

(* The exception map_directory_row leaves with, "none" if it returns: the  *)
(* values of the literal are evaluated in order.                           *)
MapperRaises(row) ==
    LET bad == {i \in 1..Len(MapperKeySeq) : MapField(row, MapperKeySeq[i]).t = "raise"}
    IN  IF bad = {} THEN "none"
        ELSE MapField(row, MapperKeySeq[CHOOSE i \in bad : \A j \in bad : i <= j]).exc

(* The mapping of a record on the columns the loader's model carries. *)
Carried(row) == [c \in ColumnSet |-> MapField(row, c)]

---------------------------------------------------------------------------
(* The mapper's helpers on their own: a value, or a record and a list of   *)
(* candidate keys, is given to one of them.                                *)

MaxStrLen == 3      \* the strings given to the helpers have at most MaxStrLen characters

NoInput == [kind |-> "none"]

HelperIdle ==
    /\ hin = NoInput
    /\ hfn = "none"
    /\ hout = [val |-> JNull]

RegIdle ==
    /\ tables = {}
    /\ written = {}
    /\ rcall = [fn |-> "none", endpoint |-> ""]
    /\ rres = "none"

(* A helper is applied to a value (directory.py 30, 70, 89, 108). *)
ApplyToValue(fn) ==
    /\ hin.kind = "value"
    /\ hfn = "none"
    /\ hfn' = fn
    /\ hout' = [val |-> CASE fn = "_is_missing" -> JBool(IsMissing(hin.v))
                          [] fn = "_to_int"     -> ToInt(hin.v)
                          [] fn = "_to_float"   -> ToFloat(hin.v)
                          [] fn = "_to_str"     -> ToStr(hin.v)]
    /\ UNCHANGED <<hin, regVars, max_retries, dbFaulty, fetchVars, rawVars, coreVars, concVars>>

(* _pick(row, keys) (directory.py 55). *)
ApplyPick ==
    /\ hin.kind = "row"
    /\ hfn = "none"
    /\ hfn' = "_pick"
    /\ hout' = [val |-> Pick(hin.row, hin.keys)]
    /\ UNCHANGED <<hin, regVars, max_retries, dbFaulty, fetchVars, rawVars, coreVars, concVars>>

(* map_directory_row(row) (directory.py 126). *)
ApplyMapDirectoryRow ==
    /\ hin.kind = "row"
    /\ hfn = "none"
    /\ hfn' = "map_directory_row"
    /\ hout' = [val |-> IF MapperRaises(hin.row) # "none"
                        THEN Raised(MapperRaises(hin.row))
                        ELSE JObj(MapDirectoryRow(hin.row))]
    /\ UNCHANGED <<hin, regVars, max_retries, dbFaulty, fetchVars, rawVars, coreVars, concVars>>

---------------------------------------------------------------------------
(* etl/core_io.py *)

(* core_io.py 69-73: `if years:`; an empty collection selects every year. *)
NoYears == [given |-> FALSE, set |-> {}]
YearsSelect(years, year) ==
    IF years.given /\ years.set # {} THEN year \in years.set ELSE TRUE

(* ORDER BY year, page_number *)
RowBefore(a, b) ==
    a.year < b.year \/ (a.year = b.year /\ a.page_number < b.page_number)

RECURSIVE SortedRows(_)
SortedRows(rows) ==
    IF rows = {} THEN <<>>
    ELSE LET first == CHOOSE r \in rows : \A q \in rows \ {r} : RowBefore(r, q)
         IN  <<first>> \o SortedRows(rows \ {first})

(* core_io.py 75-91: the records _iter_raw_records will yield, each with   *)
(* the row it comes from.                                                  *)
StreamOf(rows) ==
    Concat([i \in 1..Len(rows) |->
              [j \in 1..Len(rows[i].payload) |->
                  [yr |-> rows[i].year, page |-> rows[i].page_number, pos |-> j,
                   obj |-> rows[i].payload[j]]]])

(* An iterator that overwrites the payload's year with the row's. *)
StampYearAlways(obj, yr) ==
    JObj([k \in DOMAIN obj.f \cup {"year"} |-> IF k = "year" THEN JInt(yr) ELSE obj.f[k]])

(* core_io.py 88-90: if "year" not in obj: obj["year"] = yr *)
StampYear(obj, yr) ==
    IF "year" \notin DOMAIN obj.f
    THEN JObj([k \in DOMAIN obj.f \cup {"year"} |-> IF k = "year" THEN JInt(yr) ELSE obj.f[k]])
    ELSE obj

(* The table's constraints: NOT NULL columns and the primary key. *)
ViolatesNotNull(row) == \E c \in ColumnSet : NotNull(c) /\ row[c] = JNull

SameKey(r, row) == \A c \in PrimaryKeySet : r[c] = row[c]

(* An upsert that keeps the stored row: ON CONFLICT DO NOTHING. *)
CoreUpsertOneDoNothing(table, row) ==
    IF ViolatesNotNull(row) THEN [ok |-> FALSE, table |-> table]
    ELSE IF \E r \in table : SameKey(r, row) THEN [ok |-> TRUE, table |-> table]
    ELSE [ok |-> TRUE, table |-> table \cup {row}]

(* core_io.py 94-113: INSERT ... ON CONFLICT (unitid, year) DO UPDATE SET  *)
(* every other column = EXCLUDED.column.                                   *)
CoreUpsertOne(table, row) ==
    IF ViolatesNotNull(row) THEN [ok |-> FALSE, table |-> table]
    ELSE [ok |-> TRUE, table |-> {r \in table : ~SameKey(r, row)} \cup {row}]

(* core_io.py 151-152: the buffer is executed row by row in one transaction. *)
RECURSIVE CoreUpsertAll(_, _)
CoreUpsertAll(table, rows) ==
    IF rows = <<>> THEN [ok |-> TRUE, table |-> table]
    ELSE LET one == CoreUpsertOne(table, Head(rows))
         IN  IF one.ok THEN CoreUpsertAll(one.table, Tail(rows))
             ELSE [ok |-> FALSE, table |-> table]

(* core_io.py 151: cx.execute(upsert_sql, rows_buffer) runs the upsert row *)
(* by row; it raises at the first row the table rejects, or at row failAt  *)
(* of a faulty database, the rows before it written in the open            *)
(* transaction.                                                            *)
CoreExecuteRows(table, rows, failAt) ==
    IF failAt = 0 THEN CoreUpsertAll(table, rows)
    ELSE [ok |-> FALSE, table |-> CoreUpsertAll(table, SubSeq(rows, 1, failAt - 1)).table]

(* A flush in autocommit: the rows written before the failure stay. *)
CoreEngineBeginAutocommit(table, res) == res.table

(* core_io.py 150: with engine.begin() as cx: one transaction per flush,   *)
(* committed when the block ends and rolled back when it raises.           *)
CoreEngineBegin(table, res) == IF res.ok THEN res.table ELSE table

NoLoad == [years |-> NoYears, batch_size |-> 0]

CoreIdle ==
    /\ lpc = "idle"
    /\ largs = NoLoad
    /\ stream = <<>>
    /\ lpos = 1
    /\ rows_buffer = <<>>
    /\ processed = 0
    /\ lret = -1
    /\ core = {}
    /\ coreTableExists = FALSE
    /\ yielded = <<>>
    /\ stmts = <<>>
    /\ coreBefore = {}

(* load_core_from_raw(endpoint, years, batch_size) is called: the registry *)
(* lookup, _ensure_core_table, and the SELECT of _iter_raw_records         *)
(* (core_io.py 136-145, 64-75).                                            *)
LoadStart(years, batch_size) ==
    /\ lpc \in {"idle", "raised"}
    /\ rawTableExists
    /\ coreBefore' = core
    /\ lpc' = "iter"
    /\ largs' = [years |-> years, batch_size |-> batch_size]
    /\ coreTableExists' = TRUE
    /\ stream' = StreamOf(SortedRows({r \in raw : YearsSelect(years, r.year)}))
    /\ lpos' = 1
    /\ rows_buffer' = <<>>
    /\ processed' = 0
    /\ lret' = -1
    /\ yielded' = <<>>
    /\ stmts' = <<>>
    /\ UNCHANGED <<helperVars, regVars, core, max_retries, dbFaulty, fetchVars, rawVars, concVars>>

(* A flush on a full buffer that never fires on the exact size. *)
BufferFullStrict(buf, batch_size) == Len(buf) > batch_size

(* core_io.py 159: if len(rows_buffer) >= batch_size *)
BufferFull(buf, batch_size) == Len(buf) >= batch_size

(* One turn of the loop over the records (core_io.py 156-160, with the     *)
(* stamping of 86-90 and flush, 146-153, when the buffer is full).  An     *)
(* exception of the mapper leaves the call.                                *)
LoadStep ==
    /\ lpc = "iter"
    /\ lpos <= Len(stream)
    /\ LET e      == stream[lpos]
           obj    == StampYear(e.obj, e.yr)
           mapped == Carried(obj.f)
           buf    == Append(rows_buffer, mapped)
       IN  /\ yielded' = Append(yielded, [yr |-> e.yr, page |-> e.page, pos |-> e.pos,
                                          src |-> e.obj, obj |-> obj, mapped |-> mapped])
           /\ lpos' = lpos + 1
           /\ IF \E c \in ColumnSet : mapped[c].t = "raise"
              THEN /\ lpc' = "raised"
                   /\ UNCHANGED <<core, processed, stmts, rows_buffer>>
              ELSE IF BufferFull(buf, largs.batch_size)
              THEN \E failAt \in FailPoints(buf) :
                     LET res == CoreExecuteRows(core, buf, failAt)
                     IN  /\ stmts' = Append(stmts, buf)
                         /\ core' = CoreEngineBegin(core, res)
                         /\ IF res.ok
                            THEN /\ processed' = processed + Len(buf)
                                 /\ rows_buffer' = <<>>
                                 /\ lpc' = "iter"
                            ELSE /\ lpc' = "raised"
                                 /\ rows_buffer' = buf
                                 /\ UNCHANGED processed
              ELSE /\ rows_buffer' = buf
                   /\ UNCHANGED <<core, processed, stmts, lpc>>
    /\ UNCHANGED <<largs, stream, lret, coreTableExists, coreBefore>>
    /\ UNCHANGED <<helperVars, regVars, max_retries, dbFaulty, fetchVars, rawVars, concVars>>

(* The stream is exhausted: the final flush and the return (core_io.py 163-165). *)
LoadFinish ==
    /\ lpc = "iter"
    /\ lpos > Len(stream)
    /\ IF rows_buffer = <<>>
       THEN /\ lpc' = "done"
            /\ lret' = processed
            /\ UNCHANGED <<core, processed, rows_buffer, stmts>>
       ELSE \E failAt \in FailPoints(rows_buffer) :
              LET res == CoreExecuteRows(core, rows_buffer, failAt)
              IN  /\ stmts' = Append(stmts, rows_buffer)
                  /\ core' = CoreEngineBegin(core, res)
                  /\ IF res.ok
                     THEN /\ processed' = processed + Len(rows_buffer)
                          /\ lret' = processed + Len(rows_buffer)
                          /\ rows_buffer' = <<>>
                          /\ lpc' = "done"
                     ELSE /\ lpc' = "raised"
                          /\ UNCHANGED <<processed, lret, rows_buffer>>
    /\ UNCHANGED <<largs, stream, lpos, coreTableExists, yielded, coreBefore>>
    /\ UNCHANGED <<helperVars, regVars, max_retries, dbFaulty, fetchVars, rawVars, concVars>>

---------------------------------------------------------------------------
(* Two processes in insert_raw_payloads at once (raw_io.py 195-197 under   *)
(* PostgreSQL's READ COMMITTED): each upserts its rows in order in one     *)
(* transaction; a row key written by an open transaction is locked until   *)
(* that transaction ends, and a statement sees what is committed plus its  *)
(* own transaction's writes.                                               *)

Procs == {"p1", "p2"}

NoData == [year |-> 0, page_size |-> 0, records |-> <<>>]

ConcIdle ==
    /\ cdata = NoData
    /\ cpc = [p \in Procs |-> "start"]
    /\ crows = [p \in Procs |-> <<>>]
    /\ cidx = [p \in Procs |-> 1]
    /\ pend = [p \in Procs |-> {}]
    /\ locked = [p \in Procs |-> {}]
    /\ cret = [p \in Procs |-> -1]

KeyOf(row) == <<row.year, row.page_number>>

(* The table with a transaction's own writes in place of the committed rows. *)
Overlay(table, writes) ==
    {r \in table : \A w \in writes : KeyOf(w) # KeyOf(r)} \cup writes

(* ensure_raw_table, the fetch, and the building of the rows (raw_io.py    *)
(* 151-178); the transaction begins unless there is nothing to write.      *)
(* CREATE TABLE IF NOT EXISTS (raw_io.py 102-120) is taken as one atomic    *)
(* statement of the database.                                              *)
ConcBegin(p) ==
    /\ cpc[p] = "start"
    /\ clock < MaxClock + 1
    /\ clock' = clock + 1
    /\ IF ~schemaExists
       THEN /\ cpc' = [cpc EXCEPT ![p] = "raised"]
            /\ UNCHANGED <<crows, cret, rawTableExists>>
       ELSE /\ rawTableExists' = TRUE
            /\ LET ps   == EffectivePageSize(cdata.page_size)
                   rows == BuildRows(RegistryPath, cdata.year, cdata.records, ps, clock)
               IN  IF Len(Chunks(cdata.records, ps)) = 0
                   THEN /\ cpc' = [cpc EXCEPT ![p] = "done"]
                        /\ cret' = [cret EXCEPT ![p] = 0]
                        /\ UNCHANGED crows
                   ELSE /\ cpc' = [cpc EXCEPT ![p] = "txn"]
                        /\ crows' = [crows EXCEPT ![p] = rows]
                        /\ UNCHANGED cret
    /\ UNCHANGED <<cdata, cidx, pend, locked>>
    /\ UNCHANGED <<helperVars, regVars, max_retries, dbFaulty, fetchVars, coreVars>>
    /\ UNCHANGED <<ipc, call, ret, prev, rawBefore, schemaExists, raw, rows_to_write>>

(* One row's statement (raw_io.py 181-193, 197).  It waits while another   *)
(* transaction holds the row's key.                                        *)
ConcUpsert(p) ==
    /\ cpc[p] = "txn"
    /\ cidx[p] <= Len(crows[p])
    /\ LET row  == crows[p][cidx[p]]
           seen == Overlay(raw, pend[p])
           res  == UpsertOne(seen, row, row.ingested_at)
           now  == RowsAt(res.table, row.year, row.page_number)
       IN  /\ \A q \in Procs \ {p} : KeyOf(row) \notin locked[q]
           /\ IF res.ok
              THEN /\ locked' = [locked EXCEPT ![p] = @ \cup {KeyOf(row)}]
                   /\ pend' = [pend EXCEPT ![p] =
                                 {w \in @ : KeyOf(w) # KeyOf(row)} \cup
                                 (now \ RowsAt(raw, row.year, row.page_number))]
                   /\ cidx' = [cidx EXCEPT ![p] = @ + 1]
                   /\ UNCHANGED cpc
              ELSE /\ locked' = [locked EXCEPT ![p] = {}]      \* rolled back
                   /\ pend' = [pend EXCEPT ![p] = {}]
                   /\ cpc' = [cpc EXCEPT ![p] = "raised"]
                   /\ UNCHANGED cidx
    /\ UNCHANGED <<cdata, crows, cret>>
    /\ UNCHANGED <<helperVars, regVars, max_retries, dbFaulty, fetchVars, rawVars, coreVars>>

(* The transaction commits and the call returns (raw_io.py 196, 199-200). *)
ConcCommit(p) ==
    /\ cpc[p] = "txn"
    /\ cidx[p] > Len(crows[p])
    /\ raw' = Overlay(raw, pend[p])
    /\ pend' = [pend EXCEPT ![p] = {}]
    /\ locked' = [locked EXCEPT ![p] = {}]
    /\ cpc' = [cpc EXCEPT ![p] = "done"]
    /\ cret' = [cret EXCEPT ![p] = Len(crows[p])]
    /\ UNCHANGED <<cdata, crows, cidx>>
    /\ UNCHANGED <<helperVars, regVars, max_retries, dbFaulty, fetchVars, coreVars>>
    /\ UNCHANGED <<ipc, call, ret, prev, rawBefore, schemaExists, rawTableExists,
                   rows_to_write, clock>>

---------------------------------------------------------------------------
(* The archive run: insert_raw_payloads called again and again. *)

InitArchive ==
    /\ max_retries \in 1..MaxRetries
    /\ upstream = <<>>
    /\ fpc = "idle"
    /\ url = FirstUrl([stem |-> "", template |-> FALSE], 0)
    /\ attempt = 0
    /\ resp = NoResp
    /\ all_results = <<>>
    /\ requests = <<>>
    /\ ferr = "none"
    /\ ipc = "idle"
    /\ call = NoCall
    /\ ret = -1
    /\ prev = NoPrev
    /\ rawBefore = {}
    /\ schemaExists \in BOOLEAN
    /\ rawTableExists = FALSE
    /\ raw = {}
    /\ rows_to_write = <<>>
    /\ clock = 0
    /\ CoreIdle
    /\ HelperIdle
    /\ RegIdle
    /\ ConcIdle

Init == InitArchive /\ dbFaulty = FALSE

Next ==
    \/ \E year \in Years, page_size \in 0..MaxPageSize :
         \E chain \in ArchiveChains(RegistryPath.stem, year) :
            InsertStart(year, RegistryPath, page_size, chain)
    \/ HttpFail
    \/ HttpOk
    \/ InsertWrite

Spec == Init /\ [][Next]_vars

---------------------------------------------------------------------------
(* The fetcher on its own: one call of fetch_endpoint_data against every   *)
(* chain of pages, well formed or not.                                     *)

FetchCall(endpoint_path, year, chain) ==
    /\ fpc = "idle"
    /\ ipc = "idle"
    /\ FetchEnter(endpoint_path, year, chain)
    /\ UNCHANGED <<helperVars, regVars, max_retries, dbFaulty, rawVars, coreVars, concVars>>

InitFetch == Init /\ schemaExists

NextFetch ==
    \/ \E year \in Years, endpoint_path \in EndpointPaths :
         \E chain \in FetchChains(endpoint_path.stem, year) :
            FetchCall(endpoint_path, year, chain)
    \/ HttpFail
    \/ HttpOk

SpecFetch == InitFetch /\ [][NextFetch]_vars

---------------------------------------------------------------------------
(* Properties of the fetcher (checked under SpecFetch). *)

IsOk(r) == r.ok
OkRequests == SelectSeq(requests, IsOk)
RequestsFor(page) == SelectSeq(requests, LAMBDA r : r.page = page)
ChainWellFormed == \A k \in 1..Len(upstream) : ~IsMalformed(upstream[k])
ChainResults == Concat([k \in 1..Len(upstream) |-> upstream[k].results.v])

(* C2: against a chain of pages each pointing to the next, the successful  *)
(* requests are for pages 1, 2, 3, ... in that order, each once (a run    *)
(* without failed attempts requests nothing else), and the list returned   *)
(* is the concatenation of the pages' results.                             *)
C2_PaginationExact ==
    /\ \A i \in 1..Len(OkRequests) : OkRequests[i].page = i
    /\ (\A i \in 1..Len(requests) : requests[i].ok) => Len(requests) = Len(OkRequests)
    /\ (fpc = "done" /\ ChainWellFormed) =>
          /\ Len(OkRequests) = Len(upstream)
          /\ all_results = ChainResults

C2_Witness ==
    /\ fpc = "done"
    /\ ChainWellFormed
    /\ Len(upstream) >= 2
    /\ Len(all_results) >= 3
    /\ upstream[1].next.t = "url" /\ ~upstream[1].next.abs
    /\ \A i \in 1..Len(requests) : requests[i].ok

(* C3: a URL whose first N-1 attempts failed and whose N-th succeeded      *)
(* (N <= max_retries) has had exactly N requests: no request for it        *)
(* follows the success, the response returned is the server's, and the     *)
(* loop does not give up before max_retries attempts have failed.          *)
C3_RetryThenSuccess ==
    /\ \A i \in 1..Len(requests) :
          requests[i].ok =>
             /\ \A j \in (i + 1)..Len(requests) : requests[j].page # requests[i].page
             /\ Len(RequestsFor(requests[i].page)) <= max_retries
             /\ \A j \in 1..(i - 1) :
                   requests[j].page = requests[i].page => ~requests[j].ok
    /\ (requests # <<>> /\ requests[Len(requests)].ok) =>
          resp = upstream[requests[Len(requests)].page]
    /\ ferr = "exhausted" => Len(RequestsFor(url.page)) >= max_retries

C3_Witness ==
    /\ fpc = "done"
    /\ max_retries >= 2
    /\ Len(RequestsFor(1)) = max_retries
    /\ requests[max_retries].ok
    /\ \A j \in 1..(max_retries - 1) : ~requests[j].ok
    /\ resp = upstream[1]

(* C4: when every attempt for a URL fails, the fetch raises after exactly  *)
(* max_retries requests for it, all failed, and issues none afterwards; no *)
(* URL is ever requested more than max_retries times.                      *)
C4_RetryExhaustion ==
    /\ \A k \in 1..Len(upstream) : Len(RequestsFor(k)) <= max_retries
    /\ ferr = "exhausted" =>
          /\ fpc = "raised"
          /\ Len(RequestsFor(url.page)) = max_retries
          /\ \A i \in 1..Len(requests) : requests[i].page = url.page => ~requests[i].ok
          /\ ~ENABLED HttpFail
          /\ ~ENABLED HttpOk

C4_Witness ==
    /\ ferr = "exhausted"
    /\ fpc = "raised"
    /\ max_retries >= 2
    /\ url.page >= 2

(* C7 (the claim as stated): a successful response whose `results` is      *)
(* missing or not an array makes the fetch raise, and is the last request. *)
C7_MalformedIsFatal ==
    \A i \in 1..Len(requests) :
        (requests[i].ok /\ IsMalformed(upstream[requests[i].page])) =>
            /\ fpc = "raised"
            /\ i = Len(requests)

---------------------------------------------------------------------------
(* Properties of the archive runs (checked under Spec). *)

SameInputsAsPrev ==
    /\ prev.valid
    /\ prev.year = call.year
    /\ prev.ps = EffectivePageSize(call.page_size)
    /\ prev.records = all_results

(* C1: a call of insert_raw_payloads that fetched the same records for the *)
(* same year with the same page size as the call completed before it       *)
(* leaves every archive row as that call left it, ingested_at included.    *)
C1_SecondRunChangesNothing ==
    (ipc = "done" /\ SameInputsAsPrev) => raw = prev.rawAfter

C1_Witness ==
    /\ ipc = "done"
    /\ SameInputsAsPrev
    /\ Len(all_results) >= 2
    /\ ret >= 2
    /\ \A r \in raw : r.ingested_at < clock

(* C5: a call whose fetch fails returns nothing and leaves the archive     *)
(* rows as they were when it began, whatever pages it had fetched.         *)
C5_FailedFetchWritesNothing ==
    /\ ipc = "fetching" => (raw = rawBefore /\ ret = -1)
    /\ ferr # "none" =>
          /\ ipc = "raised"
          /\ raw = rawBefore
          /\ ret = -1
          /\ rows_to_write = <<>>

C5_Witness ==
    /\ ipc = "raised"
    /\ ferr = "exhausted"
    /\ url.page >= 2
    /\ all_results # <<>>
    /\ raw # {}

CeilDiv(n, d) == (n + d - 1) \div d

Chunking1250 ==
    LET c == Chunks([i \in 1..1250 |-> i], 500)
    IN  <<Len(c), Len(c[1]), Len(c[2]), Len(c[3])>> = <<3, 500, 500, 250>>

(* C6: a completed call with n >= 1 records and page size ps wrote         *)
(* ceil(n/ps) rows numbered 1..ceil(n/ps); all but the last hold ps        *)
(* records, the last holds the rest; record_count is the payload's length; *)
(* the payloads concatenated in page order are the records fetched; the    *)
(* archive holds each of them; 1250 records at 500 a page give 500, 500,   *)
(* 250.                                                                    *)
C6_ChunkingExact ==
    /\ Chunking1250
    /\ (ipc = "done" /\ Len(all_results) >= 1) =>
          LET n  == Len(all_results)
              ps == EffectivePageSize(call.page_size)
              np == CeilDiv(n, ps)
          IN  /\ Len(rows_to_write) = np
              /\ ret = np
              /\ \A k \in 1..np :
                    /\ rows_to_write[k].page_number = k
                    /\ rows_to_write[k].year = call.year
                    /\ Len(rows_to_write[k].payload) = IF k < np THEN ps ELSE n - ps * (np - 1)
                    /\ rows_to_write[k].record_count = Len(rows_to_write[k].payload)
                    /\ \E r \in raw :
                          /\ r.year = call.year /\ r.page_number = k
                          /\ r.payload = rows_to_write[k].payload
                          /\ r.record_count = Len(r.payload)
              /\ Concat([k \in 1..np |-> rows_to_write[k].payload]) = all_results

C6_Witness ==
    /\ ipc = "done"
    /\ Len(all_results) = 3
    /\ call.page_size = 2
    /\ Len(rows_to_write) = 2
    /\ rows_to_write[2].record_count = 1

---------------------------------------------------------------------------
(* The loader on its own: one call of load_core_from_raw over an archive   *)
(* that insert_raw_payloads has filled from these records.                 *)

MaxCoreRecords == 3     \* the archive holds at most MaxCoreRecords records
MaxBatch == 2           \* batch_size ranges over 1..MaxBatch

Fields3(k1, v1, k2, v2, k3, v3) == JObj((k1 :> v1) @@ (k2 :> v2) @@ (k3 :> v3))
Fields4(k1, v1, k2, v2, k3, v3, k4, v4) ==
    JObj((k1 :> v1) @@ (k2 :> v2) @@ (k3 :> v3) @@ (k4 :> v4))

CorePool ==
    { \* a clean record
      Fields3("unitid", JInt(1), "year", JInt(2020), "inst_name", JStr(<<"U">>)),
      \* no year; a blank name, the name under an older key, a malformed fips
      Fields4("unitid", JInt(2), "inst_name", JStr(<<" ">>), "instnm", JStr(<<"X">>),
              "fips", JStr(<<"1", "x">>)),
      \* the institution of the first record, under another year
      Fields3("unitid", JInt(1), "year", JInt(2021), "inst_name", JStr(<<" ", "V", " ">>)),
      \* the key of the first record once cast, with other values
      Fields4("unitid", JStr(<<" ", "1">>), "year", JStr(<<"2", "0", "2", "0">>),
              "name", JStr(<<"W">>), "fips", JStr(<<" ", "1", "0">>)),
      \* a malformed unitid
      Fields3("unitid", JStr(<<"x">>), "year", JInt(2020), "inst_name", JStr(<<"U">>)),
      \* a year that is present but is a missing-code
      Fields3("unitid", JInt(3), "year", JInt(-1), "fips", JInt(-2)) }

(* The archive after insert_raw_payloads(2020) fetched the first `split`   *)
(* records of recs and insert_raw_payloads(2021) the rest, ps a page.      *)
RowSet(rows) == {rows[i] : i \in 1..Len(rows)}

CoreArchive(recs, split, ps) ==
    RowSet(BuildRows(RegistryPath, 2020, SubSeq(recs, 1, split), ps, 0))
      \cup RowSet(BuildRows(RegistryPath, 2021, SubSeq(recs, split + 1, Len(recs)), ps, 0))

InitLoader(pool) ==
    /\ max_retries = 1
    /\ upstream = <<>>
    /\ fpc = "idle"
    /\ url = FirstUrl([stem |-> "", template |-> FALSE], 0)
    /\ attempt = 0
    /\ resp = NoResp
    /\ all_results = <<>>
    /\ requests = <<>>
    /\ ferr = "none"
    /\ ipc = "idle"
    /\ call = NoCall
    /\ ret = -1
    /\ prev = NoPrev
    /\ rawBefore = {}
    /\ schemaExists = TRUE
    /\ rawTableExists = TRUE
    /\ \E recs \in SeqsUpTo(pool, MaxCoreRecords) :
         \E split \in 0..Len(recs), ps \in {1, RAW_PAGE_SIZE_DEFAULT} :
            raw = CoreArchive(recs, split, ps)
    /\ rows_to_write = <<>>
    /\ clock = 1
    /\ CoreIdle
    /\ HelperIdle
    /\ RegIdle
    /\ ConcIdle

InitCore == InitLoader(CorePool) /\ dbFaulty = FALSE

LoadYears == {NoYears, [given |-> TRUE, set |-> {}], [given |-> TRUE, set |-> {2020}]}

NextCore ==
    \/ \E years \in LoadYears, batch_size \in 1..MaxBatch :
          lpc = "idle" /\ LoadStart(years, batch_size)
    \/ LoadStep
    \/ LoadFinish

SpecCore == InitCore /\ [][NextCore]_vars

---------------------------------------------------------------------------
(* Properties of the loader (checked under SpecCore). *)

(* C8 (the claim as stated): no field value, in a key column or not, makes *)
(* the load fail: a missing or malformed value becomes null in its column, *)
(* the load completes, and every record it mapped is in the core table.    *)
C8_FieldAnomaliesNeverFatal ==
    /\ lpc # "raised"
    /\ lpc = "done" =>
          \A i \in 1..Len(yielded) :
              \E r \in core : SameKey(r, yielded[i].mapped)

(* C9 (the claim as stated): every record goes into the mapping with the   *)
(* year of the archive row it was read from.                               *)
C9_ArchiveYearWins ==
    \A i \in 1..Len(yielded) :
        /\ yielded[i].obj.f["year"] = JInt(yielded[i].yr)
        /\ yielded[i].mapped["year"] = JInt(yielded[i].yr)

(* C9 (amended): a record without a `year` key goes into the mapping with  *)
(* the year of its archive row; a record with a `year` key goes in as it   *)
(* is stored, its own year untouched even when it differs from the row's.  *)
C9_YearStampedOnlyWhenAbsent ==
    \A i \in 1..Len(yielded) :
        IF "year" \notin DOMAIN yielded[i].src.f
        THEN /\ yielded[i].obj.f["year"] = JInt(yielded[i].yr)
             /\ yielded[i].mapped["year"] = JInt(yielded[i].yr)
             /\ \A k \in DOMAIN yielded[i].src.f : yielded[i].obj.f[k] = yielded[i].src.f[k]
        ELSE /\ yielded[i].obj = yielded[i].src
             /\ yielded[i].mapped["year"] = ToInt(Pick(yielded[i].src.f, <<"year">>))

C9_Witness ==
    /\ lpc = "done"
    /\ \E i \in 1..Len(yielded) : "year" \notin DOMAIN yielded[i].src.f
    /\ \E i \in 1..Len(yielded) :
          /\ "year" \in DOMAIN yielded[i].src.f
          /\ yielded[i].mapped["year"] \notin {JNull, JInt(yielded[i].yr)}

---------------------------------------------------------------------------
(* Two concurrent archive runs of the same (endpoint, year) that fetched   *)
(* the same records, over an archive left by an earlier run.               *)

InitConc ==
    /\ max_retries = 1
    /\ dbFaulty = FALSE
    /\ upstream = <<>>
    /\ fpc = "idle"
    /\ url = FirstUrl([stem |-> "", template |-> FALSE], 0)
    /\ attempt = 0
    /\ resp = NoResp
    /\ all_results = <<>>
    /\ requests = <<>>
    /\ ferr = "none"
    /\ ipc = "idle"
    /\ call = NoCall
    /\ ret = -1
    /\ prev = NoPrev
    /\ schemaExists = TRUE
    /\ \E year \in Years, m \in 0..MaxRecords, ps0 \in 0..MaxPageSize :
          /\ raw = RowSet(BuildRows(RegistryPath, year, Dataset(m),
                                    EffectivePageSize(ps0), 0))
          /\ rawBefore = raw
          /\ rawTableExists = (m > 0)
    /\ rows_to_write = <<>>
    /\ clock = 1
    /\ CoreIdle
    /\ HelperIdle
    /\ RegIdle
    /\ cdata \in [year : Years, page_size : 0..MaxPageSize, records : Datasets]
    /\ cpc = [p \in Procs |-> "start"]
    /\ crows = [p \in Procs |-> <<>>]
    /\ cidx = [p \in Procs |-> 1]
    /\ pend = [p \in Procs |-> {}]
    /\ locked = [p \in Procs |-> {}]
    /\ cret = [p \in Procs |-> -1]

NextConc ==
    \/ \E p \in Procs : ConcBegin(p)
    \/ \E p \in Procs : ConcUpsert(p)
    \/ \E p \in Procs : ConcCommit(p)

SpecConc == InitConc /\ [][NextConc]_vars

---------------------------------------------------------------------------
(* Properties of the concurrent runs (checked under SpecConc). *)

(* A row without its timestamp. *)
Content(r) == [year |-> r.year, page_number |-> r.page_number,
               source_url |-> r.source_url, source_hash |-> r.source_hash,
               record_count |-> r.record_count, payload |-> r.payload]

(* The archive a single run over rawBefore leaves. *)
SingleRun ==
    UpsertAll(rawBefore,
              BuildRows(RegistryPath, cdata.year, cdata.records,
                        EffectivePageSize(cdata.page_size), 1),
              1).table

(* C10: two processes upserting the same pages of the same year never      *)
(* fail and never block each other for good; once both have returned, the  *)
(* archive holds one row per (year, page_number) and, timestamps aside, is  *)
(* the archive a single run leaves, each page with its payload and hash.    *)
C10_ConcurrentRunsConverge ==
    /\ \A p \in Procs : cpc[p] # "raised"
    /\ (\E p \in Procs : cpc[p] # "done") => ENABLED NextConc
    /\ \A r1, r2 \in raw : KeyOf(r1) = KeyOf(r2) => r1 = r2
    /\ (\A p \in Procs : cpc[p] = "done") =>
          /\ {Content(r) : r \in raw} = {Content(r) : r \in SingleRun}
          /\ \A p \in Procs : cret[p] = Len(Chunks(cdata.records,
                                                    EffectivePageSize(cdata.page_size)))
          /\ \A k \in 1..Len(Chunks(cdata.records, EffectivePageSize(cdata.page_size))) :
                \E r \in raw :
                   /\ KeyOf(r) = <<cdata.year, k>>
                   /\ r.payload = Chunks(cdata.records, EffectivePageSize(cdata.page_size))[k]
                   /\ r.source_hash = StableJsonHash(r.payload)

C10_Witness ==
    /\ \A p \in Procs : cpc[p] = "done" /\ cret[p] >= 2
    /\ raw # rawBefore
    /\ \E r \in rawBefore : r.year = cdata.year

---------------------------------------------------------------------------
(* The mapper's helpers on their own. *)

(* Everything outside the helpers at rest. *)
ArchiveIdle ==
    /\ max_retries = 1
    /\ dbFaulty = FALSE
    /\ upstream = <<>>
    /\ fpc = "idle"
    /\ url = FirstUrl([stem |-> "", template |-> FALSE], 0)
    /\ attempt = 0
    /\ resp = NoResp
    /\ all_results = <<>>
    /\ requests = <<>>
    /\ ferr = "none"
    /\ ipc = "idle"
    /\ call = NoCall
    /\ ret = -1
    /\ prev = NoPrev
    /\ rawBefore = {}
    /\ schemaExists = TRUE
    /\ rawTableExists = FALSE
    /\ raw = {}
    /\ rows_to_write = <<>>
    /\ clock = 0
    /\ CoreIdle
    /\ ConcIdle

HelperAlphabet == {" ", "-", "0", "1", "3", "4", ".", "e", "_", "x"}

HelperStrings ==
    SeqsUpTo(HelperAlphabet, MaxStrLen) \cup
    { <<" ", "-", "2", " ">>, <<"\t", "-", "1", "\n">>, <<"\t", "\n">>, <<"-", "1", "0">>,
      <<"i", "n", "f">>, <<"-", "I", "n", "f">>, <<"n", "a", "n">>, <<"1", "e", "9", "9", "9">>,
      <<" ", "1", "2", " ">>, <<"1", ".", "5">>, <<"X">> }

(* The values json decodes: null, booleans, ints, floats (1e999 decodes to *)
(* inf), strings, lists, objects.                                          *)
HelperValues ==
    {JNull, JBool(TRUE), JBool(FALSE), JBigInt, JInf, JNegInf, JNaN}
    \cup {JInt(n) : n \in {-4, -3, -2, -1, 0, 1, 12, 2020}}
    \cup {JFloat(-1, 0), JFloat(-3, 0), JFloat(0, 0), JFloat(15, -1), JFloat(-15, -1),
          JFloat(-1, -1), JFloat(1, 3)}
    \cup {JList(<<>>), JList(<<JInt(-1)>>), JList(<<JStr(<<"x">>)>>), JObj(<<>>),
          JObj([k \in {"a"} |-> JInt(-1)])}
    \cup {JStr(str) : str \in HelperStrings}

(* Records over the candidate keys of inst_name and an undeclared key. *)
RowKeys == {"inst_name", "institution_name", "instnm", "zzz"}
RowValues == {JStr(<<"X">>), JStr(<<" ">>), JInt(-1), JInt(0), JNull}
HelperRows == UNION {[ks -> RowValues] : ks \in SUBSET RowKeys}

KeyLists ==
    { <<>>, <<"inst_name", "institution_name", "instnm">>, <<"instnm", "inst_name">>,
      <<"zzz", "zzz">>, <<"unitid">> }

InitHelpers ==
    /\ ArchiveIdle
    /\ RegIdle
    /\ hin \in [kind : {"value"}, v : HelperValues]
               \cup [kind : {"row"}, row : HelperRows, keys : KeyLists]
    /\ hfn = "none"
    /\ hout = [val |-> JNull]

NextHelpers ==
    \/ \E fn \in {"_is_missing", "_to_int", "_to_float", "_to_str"} : ApplyToValue(fn)
    \/ ApplyPick
    \/ ApplyMapDirectoryRow

SpecHelpers == InitHelpers /\ [][NextHelpers]_vars

---------------------------------------------------------------------------
(* Properties of the helpers (checked under SpecHelpers). *)

(* C11: whatever record the mapper is given, the keys of the dict it       *)
(* returns are exactly the columns the registry declares for the directory *)
(* table: none missing, none extra.                                        *)
C11_MappedKeysAreSchemaKeys ==
    (hfn = "map_directory_row" /\ hout.val.t = "obj") => DOMAIN hout.val.f = SchemaKeys

C11_Witness ==
    /\ hfn = "map_directory_row"
    /\ hout.val.t = "obj"
    /\ DOMAIN hin.row = {"zzz", "instnm"}

(* Whitespace, written out. *)
Blank(c) == c = " " \/ c = "\t" \/ c = "\n" \/ c = "\r" \/ c = "\f"

(* The text is whitespace around the two characters "-" and d. *)
IsCodeText(str, d) ==
    \E i \in 1..(Len(str) - 1) :
       /\ str[i] = "-" /\ str[i + 1] = d
       /\ \A j \in 1..Len(str) : j \notin {i, i + 1} => Blank(str[j])

(* A value is missing: null, a blank string, a string that is a reserved   *)
(* code once trimmed, or a number equal to a reserved code.                *)
MissingByDefinition(v) ==
    \/ v = JNull
    \/ v.t = "str" /\ \A i \in 1..Len(v.v) : Blank(v.v[i])
    \/ v.t = "str" /\ \E d \in {"1", "2", "3"} : IsCodeText(v.v, d)
    \/ v \in {JInt(-1), JInt(-2), JInt(-3)}
    \/ v \in {JFloat(-1, 0), JFloat(-2, 0), JFloat(-3, 0)}

(* C15: _is_missing is true exactly for null, blank strings, strings that  *)
(* trim to "-1", "-2" or "-3", and numbers equal to -1, -2 or -3; it is    *)
(* false for everything else, 0, "0", "-4" and False included.             *)
C15_IsMissingExact ==
    hfn = "_is_missing" =>
       /\ hout.val = JBool(MissingByDefinition(hin.v))
       /\ hin.v \in {JInt(0), JStr(<<"0">>), JStr(<<"-", "4">>), JBool(FALSE)} =>
             hout.val = JBool(FALSE)

C15_Witness ==
    /\ hfn = "_is_missing"
    /\ hin.v = JStr(<<" ", "-", "2", " ">>)
    /\ hout.val = JBool(TRUE)

(* C16: _pick returns the value of the first candidate, in list order,     *)
(* that the record holds with a value that is not missing, and null when   *)
(* there is none; a record with only instnm = "X" maps to inst_name "X".   *)
C16_PickFirstUsable ==
    /\ hfn = "_pick" =>
          LET usable == {i \in 1..Len(hin.keys) :
                            /\ hin.keys[i] \in DOMAIN hin.row
                            /\ ~MissingByDefinition(hin.row[hin.keys[i]])}
          IN  IF usable = {} THEN hout.val = JNull
              ELSE hout.val = hin.row[hin.keys[CHOOSE i \in usable : \A j \in usable : i <= j]]
    /\ (hfn = "map_directory_row" /\ hin.row = [k \in {"instnm"} |-> JStr(<<"X">>)]) =>
          hout.val.f["inst_name"] = JStr(<<"X">>)

C16_Witness ==
    /\ hfn = "_pick"
    /\ hin.keys = <<"inst_name", "institution_name", "instnm">>
    /\ DOMAIN hin.row = {"inst_name", "instnm"}
    /\ hin.row["inst_name"] = JInt(-1)
    /\ hout.val = JStr(<<"X">>)

(* C20: _to_int, _to_float and _to_str never raise: a missing input gives  *)
(* null, and so does a value that cannot be cast.                          *)
C20_CoercionNeverRaises ==
    hfn \in {"_to_int", "_to_float", "_to_str"} =>
       /\ hout.val.t # "raise"
       /\ MissingByDefinition(hin.v) => hout.val = JNull

---------------------------------------------------------------------------
(* The registry boundary: the entry points that take an endpoint name,     *)
(* called with names that are and are not keys of REGISTRY.  The fetch and *)
(* the rows are left to the other specifications; here a call is one step  *)
(* and only the tables it creates or fills are kept.                       *)

(* registry.py 37-38: the keys of REGISTRY. *)
Registered == {"directory"}

EndpointNames == {"directory", "admissions", "nope"}

(* raw_io.py 86: ipeds_raw."<endpoint>_raw" *)
RawTable(endpoint) == [schema |-> "ipeds_raw", endpoint |-> endpoint]

(* core_io.py 37: ipeds_core.<endpoint> *)
CoreTable(endpoint) == [schema |-> "ipeds_core", endpoint |-> endpoint]

(* registry.py 170-181 *)
GetEndpointConfig(endpoint) ==
    /\ rcall' = [fn |-> "get_endpoint_config", endpoint |-> endpoint]
    /\ rres' = IF endpoint \in Registered THEN "returned" ELSE "KeyError"
    /\ UNCHANGED <<tables, written>>
    /\ UNCHANGED <<helperVars, max_retries, dbFaulty, fetchVars, rawVars, coreVars, concVars>>

(* raw_io.py 76-121: the name is used as it is given. *)
EnsureRawTable(endpoint) ==
    /\ rcall' = [fn |-> "ensure_raw_table", endpoint |-> endpoint]
    /\ IF ~schemaExists
       THEN /\ rres' = "RuntimeError"
            /\ UNCHANGED <<tables, rawTableExists>>
       ELSE /\ rres' = "returned"
            /\ tables' = tables \cup {RawTable(endpoint)}
            /\ rawTableExists' = (rawTableExists \/ endpoint = "directory")
    /\ UNCHANGED written
    /\ UNCHANGED <<ipc, call, ret, prev, rawBefore, schemaExists, raw, rows_to_write, clock>>
    /\ UNCHANGED <<helperVars, max_retries, dbFaulty, fetchVars, coreVars, concVars>>

(* raw_io.py 127-200: ensure_raw_table(endpoint), the fetch of             *)
(* endpoint_path, the upsert into ipeds_raw."<endpoint>_raw".  fetched is   *)
(* "failed", "empty" or "records".                                         *)
InsertRawPayloads(endpoint, fetched) ==
    /\ rcall' = [fn |-> "insert_raw_payloads", endpoint |-> endpoint]
    /\ IF ~schemaExists
       THEN /\ rres' = "RuntimeError"
            /\ UNCHANGED <<tables, written, rawTableExists>>
       ELSE /\ tables' = tables \cup {RawTable(endpoint)}
            /\ rawTableExists' = (rawTableExists \/ endpoint = "directory")
            /\ rres' = IF fetched = "failed" THEN "RuntimeError" ELSE "returned"
            /\ written' = IF fetched = "records" THEN written \cup {RawTable(endpoint)}
                          ELSE written
    /\ UNCHANGED <<ipc, call, ret, prev, rawBefore, schemaExists, raw, rows_to_write, clock>>
    /\ UNCHANGED <<helperVars, max_retries, dbFaulty, fetchVars, coreVars, concVars>>

(* core_io.py 119-164: the lookup, _ensure_core_table, the SELECT on the   *)
(* raw table, the upserts; loads says whether the upserts go through.      *)
LoadCoreFromRaw(endpoint, loads) ==
    /\ rcall' = [fn |-> "load_core_from_raw", endpoint |-> endpoint]
    /\ IF endpoint \notin Registered
       THEN /\ rres' = "KeyError"
            /\ UNCHANGED <<tables, written>>
       ELSE /\ tables' = tables \cup {CoreTable(endpoint)}
            /\ IF RawTable(endpoint) \notin tables
               THEN /\ rres' = "ProgrammingError"      \* the relation does not exist
                    /\ UNCHANGED written
               ELSE IF RawTable(endpoint) \in written /\ ~loads
               THEN /\ rres' = "IntegrityError"
                    /\ UNCHANGED written
               ELSE /\ rres' = "returned"
                    /\ written' = IF RawTable(endpoint) \in written
                                  THEN written \cup {CoreTable(endpoint)} ELSE written
    /\ UNCHANGED <<helperVars, max_retries, dbFaulty, fetchVars, rawVars, coreVars, concVars>>

InitReg ==
    /\ ArchiveIdle
    /\ HelperIdle
    /\ RegIdle

NextReg ==
    \/ \E endpoint \in EndpointNames : GetEndpointConfig(endpoint)
    \/ \E endpoint \in EndpointNames : EnsureRawTable(endpoint)
    \/ \E endpoint \in EndpointNames, fetched \in {"failed", "empty", "records"} :
          InsertRawPayloads(endpoint, fetched)
    \/ \E endpoint \in EndpointNames, loads \in BOOLEAN : LoadCoreFromRaw(endpoint, loads)

SpecReg == InitReg /\ [][NextReg]_vars

---------------------------------------------------------------------------
(* Properties of the registry boundary (checked under SpecReg). *)

(* C12: a call with an endpoint name that is not in REGISTRY ends in a     *)
(* lookup error, and no table is ever created or written for such a name.  *)
C12_UnknownNameIsFatal ==
    /\ (rcall.fn # "none" /\ rcall.endpoint \notin Registered) => rres = "KeyError"
    /\ \A tb \in tables \cup written : tb.endpoint \in Registered

---------------------------------------------------------------------------
(* Further properties of the archive run (checked under Spec). *)

(* C13: when the fetch returns no record, insert_raw_payloads returns 0    *)
(* without raising, builds no row and leaves every archive row as it was.  *)
C13_EmptyFetchIsNoOp ==
    (fpc = "done" /\ all_results = <<>> /\ ipc # "fetching") =>
       /\ ipc = "done"
       /\ ret = 0
       /\ rows_to_write = <<>>
       /\ raw = rawBefore

C13_Witness ==
    /\ ipc = "done"
    /\ fpc = "done"
    /\ all_results = <<>>
    /\ \E r \in raw : r.year = call.year

UniqueKeys(table) == \A r1, r2 \in table : KeyOf(r1) = KeyOf(r2) => r1 = r2

(* C14: without the ipeds_raw namespace the call raises before any table   *)
(* is created, any request is sent or any row is written; with it, every   *)
(* call's ensure_raw_table leaves the one raw table in place, its rows     *)
(* untouched and its (year, page_number) key unique.                       *)
C14_NamespacePrecheck ==
    /\ ~schemaExists =>
          /\ ipc \in {"idle", "raised"}
          /\ ~rawTableExists
          /\ requests = <<>> /\ fpc = "idle"
          /\ raw = {} /\ rows_to_write = <<>> /\ ret = -1
    /\ (schemaExists /\ ipc # "idle") => rawTableExists
    /\ ipc = "fetching" => raw = rawBefore
    /\ UniqueKeys(raw)

C14_Witness ==
    /\ ~schemaExists
    /\ ipc = "raised"
    /\ clock = 2

(* C17: a page whose key is stored with another hash gets the new payload, *)
(* hash, url and record count and a fresh ingested_at; a page stored with  *)
(* the same hash, and every row of a key the run does not write, stay as   *)
(* they were.                                                              *)
C17_ConflictOverwrites ==
    (ipc = "done" /\ rows_to_write # <<>>) =>
       /\ \A k \in 1..Len(rows_to_write) :
             LET new    == rows_to_write[k]
                 stored == RowsAt(rawBefore, new.year, new.page_number)
                 now    == RowsAt(raw, new.year, new.page_number)
             IN  /\ Cardinality(now) = 1
                 /\ \A old \in stored, r \in now :
                       IF old.source_hash # new.source_hash
                       THEN /\ r.payload = new.payload
                            /\ r.source_hash = new.source_hash
                            /\ r.source_url = new.source_url
                            /\ r.record_count = new.record_count
                            /\ r.ingested_at = clock
                            /\ r.ingested_at > old.ingested_at
                       ELSE r = old
       /\ \A old \in rawBefore :
             (\A k \in 1..Len(rows_to_write) : KeyOf(rows_to_write[k]) # KeyOf(old)) =>
                old \in raw

C17_Witness ==
    /\ ipc = "done"
    /\ \E k \in 1..Len(rows_to_write) : \E old \in rawBefore :
          /\ KeyOf(old) = KeyOf(rows_to_write[k])
          /\ old.source_hash # rows_to_write[k].source_hash
          /\ old.source_url # rows_to_write[k].source_url
    /\ \E old \in rawBefore :
          /\ old \in raw
          /\ \A k \in 1..Len(rows_to_write) : KeyOf(rows_to_write[k]) # KeyOf(old)

---------------------------------------------------------------------------
(* Further properties of the loader (checked under SpecCore). *)

MappedSoFar == [i \in 1..Len(yielded) |-> yielded[i].mapped]

(* C18: the buffer never holds more than batch_size rows; every statement  *)
(* but the last carries exactly batch_size rows and the last at least one; *)
(* a completed load has issued ceil(n / batch_size) statements that carry  *)
(* the n mapped records once each in stream order, and returns n.          *)
C18_BatchingExact ==
    lpc # "idle" =>
       /\ Len(rows_buffer) <= largs.batch_size
       /\ \A i \in 1..Len(stmts) :
             /\ Len(stmts[i]) >= 1
             /\ Len(stmts[i]) <= largs.batch_size
             /\ i < Len(stmts) => Len(stmts[i]) = largs.batch_size
       /\ lpc = "iter" => Concat(stmts) \o rows_buffer = MappedSoFar
       /\ lpc = "done" =>
             /\ Len(yielded) = Len(stream)
             /\ Len(stmts) = CeilDiv(Len(stream), largs.batch_size)
             /\ Concat(stmts) = MappedSoFar
             /\ rows_buffer = <<>>
             /\ lret = Len(stream)

C18_Witness ==
    /\ lpc = "done"
    /\ largs.batch_size = 2
    /\ Len(stream) = 3
    /\ Len(stmts) = 2
    /\ Len(stmts[2]) = 1

(* (year, page_number, position in the payload), compared in that order. *)
ComesBefore(a, b) ==
    \/ a.yr < b.yr
    \/ a.yr = b.yr /\ a.page < b.page
    \/ a.yr = b.yr /\ a.page = b.page /\ a.pos < b.pos

(* C19: the records are processed in (year, page_number, position) order,  *)
(* and after a completed load the core table holds, for every primary key  *)
(* in the stream, exactly one row: the mapping of the last record with     *)
(* that key.                                                               *)
C19_LastWriteWins ==
    /\ \A i, j \in 1..Len(yielded) : i < j => ComesBefore(yielded[i], yielded[j])
    /\ lpc = "done" =>
          \A i \in 1..Len(yielded) :
             LET same == {j \in 1..Len(yielded) : SameKey(yielded[j].mapped, yielded[i].mapped)}
                 last == CHOOSE j \in same :
                            \A q \in same \ {j} : ComesBefore(yielded[q], yielded[j])
             IN  {r \in core : SameKey(r, yielded[i].mapped)} = {yielded[last].mapped}

C19_Witness ==
    /\ lpc = "done"
    /\ \E i, j \in 1..Len(yielded) :
          /\ i < j
          /\ SameKey(yielded[i].mapped, yielded[j].mapped)
          /\ yielded[i].mapped # yielded[j].mapped
          /\ yielded[j].mapped \in core
          /\ yielded[i].yr # yielded[j].yr

---------------------------------------------------------------------------
(* The years argument of the loader (checked under SpecCore). *)

(* C21 (the claim as stated): when years is provided, the records that are *)
(* mapped are those of the raw pages whose year is a member of years, so   *)
(* an empty collection maps nothing; only when years is not provided are   *)
(* the pages of every year mapped.                                         *)
C21_ProvidedYearsRestrict ==
    lpc # "idle" =>
       /\ stream = StreamOf(SortedRows({r \in raw :
                      largs.years.given => r.year \in largs.years.set}))
       /\ \A i \in 1..Len(yielded) :
             largs.years.given => yielded[i].yr \in largs.years.set

---------------------------------------------------------------------------
(* The archive of a year after a run (checked under Spec). *)

(* C22 (the claim as stated): after a completed call the archive rows of   *)
(* the call's year are exactly the chunks of the records just fetched,     *)
(* numbered 1..ceil(n/ps); no row of a higher page_number is left from an  *)
(* earlier run.                                                            *)
C22_YearHoldsOnlyThisRun ==
    ipc = "done" =>
       LET ps == EffectivePageSize(call.page_size)
           np == CeilDiv(Len(all_results), ps)
       IN  /\ {r.page_number : r \in {q \in raw : q.year = call.year}} = 1..np
           /\ \A r \in raw :
                 r.year = call.year =>
                    /\ r.page_number \in 1..np
                    /\ r.payload = Chunks(all_results, ps)[r.page_number]

---------------------------------------------------------------------------
(* The archive runs against a database that may fail the upsert. *)

InitArchiveFaulty ==
    /\ InitArchive
    /\ max_retries = 1
    /\ schemaExists
    /\ dbFaulty = TRUE

SpecArchiveFaulty == InitArchiveFaulty /\ [][Next]_vars

(* C23: a run whose upsert fails at any page raises without a return value *)
(* and leaves the archive rows as they were before the call, none of its   *)
(* pages inserted or updated; a run that completes has written every one   *)
(* of its pages.                                                           *)
C23_RunIsAtomic ==
    /\ (ipc = "raised" /\ rows_to_write # <<>>) =>
          /\ raw = rawBefore
          /\ ret = -1
    /\ (ipc = "done" /\ rows_to_write # <<>>) =>
          \A k \in 1..Len(rows_to_write) :
             \E r \in raw : /\ KeyOf(r) = KeyOf(rows_to_write[k])
                            /\ r.source_hash = rows_to_write[k].source_hash

C23_Witness ==
    /\ ipc = "raised"
    /\ ferr = "none"
    /\ Len(rows_to_write) >= 2
    /\ rawBefore # {}
    /\ \A k \in 1..Len(rows_to_write) :
          \A r \in raw : KeyOf(r) = KeyOf(rows_to_write[k]) =>
                            r.source_hash # rows_to_write[k].source_hash

---------------------------------------------------------------------------
(* The loader against a database that may fail a flush, re-run with the    *)
(* same arguments after a failure.                                         *)

RecoverPool ==
    { \* a clean record
      Fields3("unitid", JInt(1), "year", JInt(2020), "inst_name", JStr(<<"U">>)),
      \* the key of the first record once cast, with other values
      Fields4("unitid", JStr(<<" ", "1">>), "year", JStr(<<"2", "0", "2", "0">>),
              "name", JStr(<<"W">>), "fips", JStr(<<" ", "1", "0">>)),
      \* another institution, without a year
      Fields3("unitid", JInt(2), "inst_name", JStr(<<"X">>), "fips", JInt(-2)),
      \* a record the mapper raises on: 1e999 decodes to inf
      Fields3("unitid", JInt(3), "year", JInt(2021), "fips", JInf) }

InitRecover == InitLoader(RecoverPool) /\ dbFaulty = TRUE

(* The cause of the failures is removed. *)
Repair ==
    /\ lpc = "raised"
    /\ dbFaulty
    /\ dbFaulty' = FALSE
    /\ UNCHANGED <<max_retries, fetchVars, rawVars, coreVars, concVars, helperVars, regVars>>

NextRecover ==
    \/ \E batch_size \in 1..MaxBatch : lpc = "idle" /\ LoadStart(NoYears, batch_size)
    \/ lpc = "raised" /\ LoadStart(largs.years, largs.batch_size)
    \/ LoadStep
    \/ LoadFinish
    \/ Repair

SpecRecover == InitRecover /\ [][NextRecover]_vars

(* The batches of this call whose transaction committed: all those         *)
(* executed, but the last one when its execution raised.                   *)
FlushRaised ==
    lpc = "raised" /\ stmts # <<>> /\ rows_buffer = stmts[Len(stmts)]

Committed == IF FlushRaised THEN SubSeq(stmts, 1, Len(stmts) - 1) ELSE stmts

(* C24: a call that raises, in the mapper or in a flush, returns no count; *)
(* at every moment the core table is the table the call found with the     *)
(* batches committed so far upserted in order, so a failure in batch k     *)
(* leaves batches 1..k-1 in and no row of batch k; and a re-run that       *)
(* completes leaves the table an uninterrupted run over the same archive   *)
(* leaves.                                                                 *)
C24_BatchTransactions ==
    /\ lpc = "raised" => lret = -1
    /\ lpc # "idle" =>
          /\ core = CoreUpsertAll(coreBefore, Concat(Committed)).table
          /\ processed = Len(Concat(Committed))
    /\ lpc = "done" =>
          /\ lret = Len(stream)
          /\ core = CoreUpsertAll({}, MappedSoFar).table

C24_Witness ==
    /\ lpc = "done"
    /\ ~dbFaulty
    /\ Len(stmts) >= 2
    /\ coreBefore # {}
    /\ coreBefore # core
    /\ \E r \in coreBefore : \E q \in core : SameKey(r, q) /\ r # q

===========================================================================
